---------------------------- MODULE Spec2Model ----------------------------
(* The conversation scheduler of murder-mystery-agents: the six-node turn  *)
(* loop of graphs/discussion.py (think_all, game_master_decide, speak,     *)
(* update_history, check_round_advance, advance_turn), the Game Master's   *)
(* round logic and its speaker selection (game-master/game_master.py), and *)
(* the initial state built by run_discussion.py.                           *)
(*                                                                         *)
(* Strings are sequences of one-character strings, so that lower(), the    *)
(* substring test `in` and the name patterns are computed, not assumed.    *)
EXTENDS Integers, Sequences, FiniteSets, TLC

VARIABLES
    pc,                      \* the graph node to run next, "END", or "raised"
    agents,                  \* list(agents.keys()): the roster, in dict order
    max_turns,               \* build_graph's max_turns
    conversations_per_round, \* GameMaster.conversations_per_round
    turn,
    current_round,
    conversations_in_round,
    history,                 \* sequence of utterances [turn, speaker, text]
    pending_obligation,      \* <<>> (None) or <<obligation>>
    thoughts,                \* dict name -> ThinkResult, in insertion order
    last_speaker,
    next_speaker,
    new_utterance,           \* <<>> (None) or <<utterance>>
    done,
    phase,
    decision,                \* game_master_decide's local: <<>> or <<SpeakerDecision>>
    agent_round,             \* Agent.current_round of every agent
    speak_call,              \* the turn's Agent.speak call: <<>> or <<[speaker, response_constraint]>>
    call,                    \* a function called on its own: <<>> or <<its arguments>>
    returned,                \* what that call returned: <<>> or <<value>>
    suspicions,              \* KnowledgeGraph.suspicions: target -> [level, reasons]
    facts,                   \* LongTermMemory.facts
    agent_memory,            \* Agent.memory of every agent: name -> AgentMemory
    futures,                 \* think_all's futures: <<>> or agent -> [done, arrival, entry]
    clue_files,              \* clues/clue<n>.txt: n -> text
    round_files,             \* roles/<dir>/rounds/<n>/description.txt: <<dir, n>> -> text
    accumulated_knowledge,   \* Agent.accumulated_knowledge of every agent
    clues_received,          \* LongTermMemory.clues_received of every agent
    round_updates            \* the round numbers update_round was called with, per agent

\* the variables of the functions called on their own, and of an agent's
\* memory
call_vars == <<call, returned>>
memory_vars == <<suspicions, facts, agent_memory>>

\* the variables of the turn loop
loop_vars == <<pc, agents, max_turns, conversations_per_round, turn, current_round,
               conversations_in_round, history, pending_obligation, thoughts,
               last_speaker, next_speaker, new_utterance, done, phase, decision,
               agent_round, speak_call>>

\* the files the run reads, and what the agents have taken from them
file_vars == <<clue_files, round_files>>
knowledge_vars == <<accumulated_knowledge, clues_received, round_updates>>

rest_vars == <<futures, file_vars, knowledge_vars>>

vars == <<loop_vars, call_vars, memory_vars, rest_vars>>

-----------------------------------------------------------------------------
(* Bounds of the model.                                                    *)

\* conversations_per_round is drawn from 1..MaxConversationsPerRound
MaxConversationsPerRound == 2

-----------------------------------------------------------------------------
(* Python values.                                                          *)

\* Python's None where a string is expected: its one element is not a
\* character, so it differs from every string, the empty string included.
None == <<"None">>

\* Python truthiness of an Optional[str]: None and "" are falsy.
Truthy(s) == s /= None /\ s /= <<>>

Range(seq) == {seq[i] : i \in 1..Len(seq)}

\* str.lower() on one character
LowerChar(c) ==
    CASE c = "A" -> "a" [] c = "B" -> "b" [] c = "C" -> "c" [] c = "D" -> "d"
      [] c = "E" -> "e" [] c = "F" -> "f" [] c = "G" -> "g" [] c = "H" -> "h"
      [] c = "I" -> "i" [] c = "J" -> "j" [] c = "K" -> "k" [] c = "L" -> "l"
      [] c = "M" -> "m" [] c = "N" -> "n" [] c = "O" -> "o" [] c = "P" -> "p"
      [] c = "Q" -> "q" [] c = "R" -> "r" [] c = "S" -> "s" [] c = "T" -> "t"
      [] c = "U" -> "u" [] c = "V" -> "v" [] c = "W" -> "w" [] c = "X" -> "x"
      [] c = "Y" -> "y" [] c = "Z" -> "z" [] OTHER -> c

\* str.lower()
Lower(s) == [i \in 1..Len(s) |-> LowerChar(s[i])]

\* pattern in text
Contains(pattern, text) ==
    \E i \in 0..(Len(text) - Len(pattern)) :
        SubSeq(text, i + 1, i + Len(pattern)) = pattern

\* s.split()[0] for a string with a non-blank character: the first
\* blank-separated word
RECURSIVE FirstWord(_)
FirstWord(s) ==
    IF s = <<>> THEN <<>>
    ELSE IF Head(s) = " " THEN FirstWord(Tail(s))
    ELSE LET blanks == {i \in 1..Len(s) : s[i] = " "}
         IN  IF blanks = {} THEN s
             ELSE SubSeq(s, 1, (CHOOSE i \in blanks : \A j \in blanks : i <= j) - 1)

\* the decimal digits of a natural number, and an integer as text
DigitChars == <<"0","1","2","3","4","5","6","7","8","9">>

RECURSIVE NatText(_)
NatText(n) ==
    IF n < 10 THEN <<DigitChars[n + 1]>>
    ELSE NatText(n \div 10) \o <<DigitChars[(n % 10) + 1]>>

IntText(n) == IF n < 0 THEN <<"-">> \o NatText(0 - n) ELSE NatText(n)

\* text.find(pattern, start): the lowest index from start on, or -1
Find(pattern, text, start) ==
    LET hits == {i \in start..(Len(text) - Len(pattern)) :
                    SubSeq(text, i + 1, i + Len(pattern)) = pattern}
    IN  IF hits = {} THEN -1 ELSE CHOOSE i \in hits : \A j \in hits : i <= j

\* text[start:end] for end in 0..len(text); a negative start counts from
\* the end
PySlice(text, start, end) ==
    LET from == IF start >= 0 THEN start
                ELSE IF Len(text) + start >= 0 THEN Len(text) + start ELSE 0
    IN  SubSeq(text, from + 1, end)

\* text.replace(old, new) for a non-empty old: occurrence by occurrence,
\* from the left
RECURSIVE Replace(_, _, _)
Replace(text, old, new) ==
    LET i == Find(old, text, 0)
    IN  IF i = -1 THEN text
        ELSE SubSeq(text, 1, i) \o new
                 \o Replace(SubSeq(text, i + Len(old) + 1, Len(text)), old, new)

\* text.strip()
Whitespace == {" ", "\n", "\t", "\r"}

Strip(text) ==
    LET solid == {i \in 1..Len(text) : text[i] \notin Whitespace}
    IN  IF solid = {} THEN <<>>
        ELSE SubSeq(text, CHOOSE i \in solid : \A j \in solid : i <= j,
                          CHOOSE i \in solid : \A j \in solid : i >= j)

-----------------------------------------------------------------------------
(* Names and texts the runs draw from.                                     *)

GameMasterName == <<"G","a","m","e"," ","M","a","s","t","e","r">>
AnnLee == <<"A","n","n"," ","L","e","e">>
Bob == <<"B","o","b">>
Cy == <<"C","y">>

\* the role directory's characters, in load order: the rosters of the
\* single-turn specification are the prefixes of Roster, those of the full
\* turn loop, where every agent multiplies the histories, the prefixes of
\* LoopRoster
Roster == <<AnnLee, Bob, Cy>>
LoopRoster == <<AnnLee, Bob>>

murder_announcement ==
    <<"A","N","N","O","U","N","C","E","M","E","N","T",":"," ",
      "E","l","i","z","a","b","e","t","h"," ",
      "K","i","l","l","i","n","g","s","w","o","r","t","h"," ",
      "h","a","s"," ","b","e","e","n"," ","f","o","u","n","d"," ",
      "D","E","A","D",".">>

\* what an agent may say: nobody addressed; "Bob, what"; the full name and
\* the first name of Ann Lee, in other case; a text that names two agents
TxtPlain == <<"o","k">>
TxtBobWhat == <<"B","o","b",","," ","w","h","a","t">>
TxtAnnLeeFull == <<"a","n","n"," ","L","E","E",","," ","h","i">>
TxtAnnFirst == <<"A","N","N",","," ","h","i">>
TxtBobAskAnn == <<"B","o","b",","," ","a","s","k"," ","A","n","n">>

Texts == {TxtPlain, TxtBobWhat, TxtAnnLeeFull, TxtAnnFirst, TxtBobAskAnn}

\* the texts drawn in the full turn loop, where every text multiplies the
\* histories
LoopTexts == {TxtPlain, TxtBobWhat}

\* what one agent's think can return (the thought text is not modelled):
\* the top importance with either action, and the two default intents of
\* Agent.think (importance 3) and think_all (importance 1)
ThinkResults ==
    {[action |-> "speak", importance |-> 9], [action |-> "listen", importance |-> 9],
     [action |-> "listen", importance |-> 3], [action |-> "listen", importance |-> 1]}

\* the think result drawn in the full turn loop: with the rosters of
\* LoopRoster at most one agent is available in a round >= 2, so that no
\* importance decides a speaker there; the completion order still varies
LoopThinkResults ==
    {[action |-> "speak", importance |-> 9]}


-----------------------------------------------------------------------------
(* GameMaster: round logic.                                                *)

\* GameMaster.max_rounds
MaxRounds == 6

\* should_advance_round with > for >=: a round one conversation too long
ShouldAdvanceRoundLate(conv_in_round, cur_round, conv_per_round) ==
    IF cur_round >= MaxRounds THEN FALSE
    ELSE conv_in_round > conv_per_round

ShouldAdvanceRound(conv_in_round, cur_round, conv_per_round) ==
    IF cur_round >= MaxRounds THEN FALSE
    ELSE conv_in_round >= conv_per_round

\* get_phase_for_round that keeps the introduction phase in round 2
GetPhaseForRoundLate(round_num) ==
    IF round_num <= 2 THEN "introduction"
    ELSE IF round_num <= 5 THEN "discussion"
    ELSE "accusation"

\* GameMaster.get_phase_for_round
GetPhaseForRound(round_num) ==
    IF round_num = 1 THEN "introduction"
    ELSE IF round_num <= 5 THEN "discussion"
    ELSE "accusation"

\* GameMaster._load_clue: the stripped text of clue<n>.txt, "" without it
LoadClue(files, clue_number) ==
    IF clue_number \in DOMAIN files THEN Strip(files[clue_number]) ELSE <<>>

\* the literal pieces of announce_round_change's texts; a character
\* outside ASCII is written U+ and its code point
ClueSection1 ==
    << "\n", "U+250C", "U+2500", "U+2500", "U+2500", "U+2500", "U+2500", "U+2500", "U+2500", "U+2500", "U+2500", "U+2500",
       "U+2500", "U+2500", "U+2500", "U+2500", "U+2500", "U+2500", "U+2500", "U+2500", "U+2500", "U+2500", "U+2500", "U+2500",
       "U+2500", "U+2500", "U+2500", "U+2500", "U+2500", "U+2500", "U+2500", "U+2500", "U+2500", "U+2500", "U+2500", "U+2500",
       "U+2500", "U+2500", "U+2500", "U+2500", "U+2500", "U+2500", "U+2500", "U+2500", "U+2500", "U+2500", "U+2500", "U+2500",
       "U+2500", "U+2500", "U+2500", "U+2500", "U+2500", "U+2500", "U+2500", "U+2500", "U+2500", "U+2500", "U+2500", "U+2500",
       "U+2500", "U+2500", "U+2500", "U+2500", "U+2500", "U+2500", "U+2500", "U+2510", "\n", "U+2502", " ", " ",
       " ", " ", " ", " ", " ", " ", " ", " ", " ", " ", " ", " ",
       " ", " ", " ", " ", " ", " ", " ", "N", "E", "W", " ", "C",
       "L", "U", "E", " ", "D", "I", "S", "C", "O", "V", "E", "R",
       "E", "D", "!", " ", " ", " ", " ", " ", " ", " ", " ", " ",
       " ", " ", " ", " ", " ", " ", " ", " ", " ", " ", " ", " ",
       " ", " ", " ", "U+2502", "\n", "U+2514", "U+2500", "U+2500", "U+2500", "U+2500", "U+2500", "U+2500",
       "U+2500", "U+2500", "U+2500", "U+2500", "U+2500", "U+2500", "U+2500", "U+2500", "U+2500", "U+2500", "U+2500", "U+2500",
       "U+2500", "U+2500", "U+2500", "U+2500", "U+2500", "U+2500", "U+2500", "U+2500", "U+2500", "U+2500", "U+2500", "U+2500",
       "U+2500", "U+2500", "U+2500", "U+2500", "U+2500", "U+2500", "U+2500", "U+2500", "U+2500", "U+2500", "U+2500", "U+2500",
       "U+2500", "U+2500", "U+2500", "U+2500", "U+2500", "U+2500", "U+2500", "U+2500", "U+2500", "U+2500", "U+2500", "U+2500",
       "U+2500", "U+2500", "U+2500", "U+2500", "U+2500", "U+2500", "U+2500", "U+2500", "U+2500", "U+2500", "U+2500", "U+2518",
       "\n", "\n" >>

ClueSection2 ==
    << "\n", "\n", "U+2550", "U+2550", "U+2550", "U+2550", "U+2550", "U+2550", "U+2550", "U+2550", "U+2550", "U+2550",
       "U+2550", "U+2550", "U+2550", "U+2550", "U+2550", "U+2550", "U+2550", "U+2550", "U+2550", "U+2550", "U+2550", "U+2550",
       "U+2550", "U+2550", "U+2550", "U+2550", "U+2550", "U+2550", "U+2550", "U+2550", "U+2550", "U+2550", "U+2550", "U+2550",
       "U+2550", "U+2550", "U+2550", "U+2550", "U+2550", "U+2550", "U+2550", "U+2550", "U+2550", "U+2550", "U+2550", "U+2550",
       "U+2550", "U+2550", "U+2550", "U+2550", "U+2550", "U+2550", "U+2550", "U+2550", "U+2550", "U+2550", "U+2550", "U+2550",
       "U+2550", "U+2550", "U+2550", "U+2550", "U+2550", "U+2550", "U+2550", "U+2550", "\n" >>

AnnouncementRound21 ==
    << "\n", "U+2554", "U+2550", "U+2550", "U+2550", "U+2550", "U+2550", "U+2550", "U+2550", "U+2550", "U+2550", "U+2550",
       "U+2550", "U+2550", "U+2550", "U+2550", "U+2550", "U+2550", "U+2550", "U+2550", "U+2550", "U+2550", "U+2550", "U+2550",
       "U+2550", "U+2550", "U+2550", "U+2550", "U+2550", "U+2550", "U+2550", "U+2550", "U+2550", "U+2550", "U+2550", "U+2550",
       "U+2550", "U+2550", "U+2550", "U+2550", "U+2550", "U+2550", "U+2550", "U+2550", "U+2550", "U+2550", "U+2550", "U+2550",
       "U+2550", "U+2550", "U+2550", "U+2550", "U+2550", "U+2550", "U+2550", "U+2550", "U+2550", "U+2550", "U+2550", "U+2550",
       "U+2550", "U+2550", "U+2550", "U+2550", "U+2550", "U+2557", "\n", "U+2551", " ", " ", " ", " ",
       " ", " ", " ", " ", " ", "R", "O", "U", "N", "D", " " >>

AnnouncementRound22 ==
    << ":", " ", "T", "H", "E", " ", "I", "N", "V", "E", "S", "T",
       "I", "G", "A", "T", "I", "O", "N", " ", "B", "E", "G", "I",
       "N", "S", " ", " ", " ", " ", " ", " ", " ", " ", " ", " ",
       " ", "U+2551", "\n", "U+255A", "U+2550", "U+2550", "U+2550", "U+2550", "U+2550", "U+2550", "U+2550", "U+2550",
       "U+2550", "U+2550", "U+2550", "U+2550", "U+2550", "U+2550", "U+2550", "U+2550", "U+2550", "U+2550", "U+2550", "U+2550",
       "U+2550", "U+2550", "U+2550", "U+2550", "U+2550", "U+2550", "U+2550", "U+2550", "U+2550", "U+2550", "U+2550", "U+2550",
       "U+2550", "U+2550", "U+2550", "U+2550", "U+2550", "U+2550", "U+2550", "U+2550", "U+2550", "U+2550", "U+2550", "U+2550",
       "U+2550", "U+2550", "U+2550", "U+2550", "U+2550", "U+2550", "U+2550", "U+2550", "U+2550", "U+2550", "U+2550", "U+2550",
       "U+2550", "U+2550", "U+2550", "U+2550", "U+2550", "U+2550", "U+2550", "U+255D", "\n", "\n", "T", "h",
       "e", " ", "i", "n", "t", "r", "o", "d", "u", "c", "t", "i",
       "o", "n", "s", " ", "a", "r", "e", " ", "c", "o", "m", "p",
       "l", "e", "t", "e", ".", " ", "N", "o", "w", " ", "t", "h",
       "e", " ", "r", "e", "a", "l", " ", "i", "n", "v", "e", "s",
       "t", "i", "g", "a", "t", "i", "o", "n", " ", "b", "e", "g",
       "i", "n", "s", "!", "\n" >>

AnnouncementRound23 ==
    << "\n", "R", "e", "m", "e", "m", "b", "e", "r", ":", " ", "E",
       "l", "i", "z", "a", "b", "e", "t", "h", " ", "K", "i", "l",
       "l", "i", "n", "g", "s", "w", "o", "r", "t", "h", " ", "w",
       "a", "s", " ", "M", "U", "R", "D", "E", "R", "E", "D", ".",
       "\n", "O", "n", "e", " ", "o", "f", " ", "y", "o", "u", " ",
       "i", "s", " ", "t", "h", "e", " ", "k", "i", "l", "l", "e",
       "r", ".", " ", "Q", "u", "e", "s", "t", "i", "o", "n", " ",
       "e", "v", "e", "r", "y", "o", "n", "e", ".", " ", "L", "o",
       "o", "k", " ", "f", "o", "r", " ", "l", "i", "e", "s", " ",
       "a", "n", "d", " ", "\n", "i", "n", "c", "o", "n", "s", "i",
       "s", "t", "e", "n", "c", "i", "e", "s", ".", " ", "F", "i",
       "n", "d", " ", "o", "u", "t", " ", "w", "h", "o", " ", "k",
       "i", "l", "l", "e", "d", " ", "E", "l", "i", "z", "a", "b",
       "e", "t", "h", "!", "\n" >>

AnnouncementRound1 ==
    << "\n", "U+2554", "U+2550", "U+2550", "U+2550", "U+2550", "U+2550", "U+2550", "U+2550", "U+2550", "U+2550", "U+2550",
       "U+2550", "U+2550", "U+2550", "U+2550", "U+2550", "U+2550", "U+2550", "U+2550", "U+2550", "U+2550", "U+2550", "U+2550",
       "U+2550", "U+2550", "U+2550", "U+2550", "U+2550", "U+2550", "U+2550", "U+2550", "U+2550", "U+2550", "U+2550", "U+2550",
       "U+2550", "U+2550", "U+2550", "U+2550", "U+2550", "U+2550", "U+2550", "U+2550", "U+2550", "U+2550", "U+2550", "U+2550",
       "U+2550", "U+2550", "U+2550", "U+2550", "U+2550", "U+2550", "U+2550", "U+2550", "U+2550", "U+2550", "U+2550", "U+2550",
       "U+2550", "U+2550", "U+2550", "U+2550", "U+2550", "U+2557", "\n", "U+2551", " ", " ", " ", " ",
       " ", " ", " ", " ", " ", " ", " ", " ", " ", " ", " ", " ",
       " ", " ", " ", " ", " ", " ", "R", "O", "U", "N", "D", " " >>

AnnouncementRound2 ==
    << " ", " ", " ", " ", " ", " ", " ", " ", " ", " ", " ", " ",
       " ", " ", " ", " ", " ", " ", " ", " ", " ", " ", " ", " ",
       "U+2551", "\n", "U+255A", "U+2550", "U+2550", "U+2550", "U+2550", "U+2550", "U+2550", "U+2550", "U+2550", "U+2550",
       "U+2550", "U+2550", "U+2550", "U+2550", "U+2550", "U+2550", "U+2550", "U+2550", "U+2550", "U+2550", "U+2550", "U+2550",
       "U+2550", "U+2550", "U+2550", "U+2550", "U+2550", "U+2550", "U+2550", "U+2550", "U+2550", "U+2550", "U+2550", "U+2550",
       "U+2550", "U+2550", "U+2550", "U+2550", "U+2550", "U+2550", "U+2550", "U+2550", "U+2550", "U+2550", "U+2550", "U+2550",
       "U+2550", "U+2550", "U+2550", "U+2550", "U+2550", "U+2550", "U+2550", "U+2550", "U+2550", "U+2550", "U+2550", "U+2550",
       "U+2550", "U+2550", "U+2550", "U+2550", "U+2550", "U+2550", "U+255D", "\n", "\n", "N", "e", "w",
       " ", "e", "v", "i", "d", "e", "n", "c", "e", " ", "h", "a",
       "s", " ", "e", "m", "e", "r", "g", "e", "d", "!", "\n" >>

AnnouncementRound3 ==
    << "\n", "T", "h", "e", " ", "t", "r", "u", "t", "h", " ", "a",
       "b", "o", "u", "t", " ", "E", "l", "i", "z", "a", "b", "e",
       "t", "h", "'", "s", " ", "m", "u", "r", "d", "e", "r", " ",
       "i", "s", " ", "g", "e", "t", "t", "i", "n", "g", " ", "c",
       "l", "o", "s", "e", "r", ".", ".", ".", "\n", "C", "o", "n",
       "t", "i", "n", "u", "e", " ", "q", "u", "e", "s", "t", "i",
       "o", "n", "i", "n", "g", ".", " ", "T", "h", "e", " ", "k",
       "i", "l", "l", "e", "r", " ", "i", "s", " ", "a", "m", "o",
       "n", "g", " ", "y", "o", "u", "!", "\n" >>

FinalClueSection1 ==
    << "\n", "U+250C", "U+2500", "U+2500", "U+2500", "U+2500", "U+2500", "U+2500", "U+2500", "U+2500", "U+2500", "U+2500",
       "U+2500", "U+2500", "U+2500", "U+2500", "U+2500", "U+2500", "U+2500", "U+2500", "U+2500", "U+2500", "U+2500", "U+2500",
       "U+2500", "U+2500", "U+2500", "U+2500", "U+2500", "U+2500", "U+2500", "U+2500", "U+2500", "U+2500", "U+2500", "U+2500",
       "U+2500", "U+2500", "U+2500", "U+2500", "U+2500", "U+2500", "U+2500", "U+2500", "U+2500", "U+2500", "U+2500", "U+2500",
       "U+2500", "U+2500", "U+2500", "U+2500", "U+2500", "U+2500", "U+2500", "U+2500", "U+2500", "U+2500", "U+2500", "U+2500",
       "U+2500", "U+2500", "U+2500", "U+2500", "U+2500", "U+2500", "U+2500", "U+2510", "\n", "U+2502", " ", " ",
       " ", " ", " ", " ", " ", " ", " ", " ", " ", " ", " ", " ",
       " ", " ", " ", " ", " ", " ", " ", " ", " ", " ", " ", "F",
       "I", "N", "A", "L", " ", "C", "L", "U", "E", "!", " ", " ",
       " ", " ", " ", " ", " ", " ", " ", " ", " ", " ", " ", " ",
       " ", " ", " ", " ", " ", " ", " ", " ", " ", " ", " ", " ",
       " ", " ", " ", "U+2502", "\n", "U+2514", "U+2500", "U+2500", "U+2500", "U+2500", "U+2500", "U+2500",
       "U+2500", "U+2500", "U+2500", "U+2500", "U+2500", "U+2500", "U+2500", "U+2500", "U+2500", "U+2500", "U+2500", "U+2500",
       "U+2500", "U+2500", "U+2500", "U+2500", "U+2500", "U+2500", "U+2500", "U+2500", "U+2500", "U+2500", "U+2500", "U+2500",
       "U+2500", "U+2500", "U+2500", "U+2500", "U+2500", "U+2500", "U+2500", "U+2500", "U+2500", "U+2500", "U+2500", "U+2500",
       "U+2500", "U+2500", "U+2500", "U+2500", "U+2500", "U+2500", "U+2500", "U+2500", "U+2500", "U+2500", "U+2500", "U+2500",
       "U+2500", "U+2500", "U+2500", "U+2500", "U+2500", "U+2500", "U+2500", "U+2500", "U+2500", "U+2500", "U+2500", "U+2518",
       "\n", "\n" >>

FinalClueSection2 ==
    << "\n", "\n", "U+2550", "U+2550", "U+2550", "U+2550", "U+2550", "U+2550", "U+2550", "U+2550", "U+2550", "U+2550",
       "U+2550", "U+2550", "U+2550", "U+2550", "U+2550", "U+2550", "U+2550", "U+2550", "U+2550", "U+2550", "U+2550", "U+2550",
       "U+2550", "U+2550", "U+2550", "U+2550", "U+2550", "U+2550", "U+2550", "U+2550", "U+2550", "U+2550", "U+2550", "U+2550",
       "U+2550", "U+2550", "U+2550", "U+2550", "U+2550", "U+2550", "U+2550", "U+2550", "U+2550", "U+2550", "U+2550", "U+2550",
       "U+2550", "U+2550", "U+2550", "U+2550", "U+2550", "U+2550", "U+2550", "U+2550", "U+2550", "U+2550", "U+2550", "U+2550",
       "U+2550", "U+2550", "U+2550", "U+2550", "U+2550", "U+2550", "U+2550", "U+2550", "\n" >>

AnnouncementFinal1 ==
    << "\n", "U+2554", "U+2550", "U+2550", "U+2550", "U+2550", "U+2550", "U+2550", "U+2550", "U+2550", "U+2550", "U+2550",
       "U+2550", "U+2550", "U+2550", "U+2550", "U+2550", "U+2550", "U+2550", "U+2550", "U+2550", "U+2550", "U+2550", "U+2550",
       "U+2550", "U+2550", "U+2550", "U+2550", "U+2550", "U+2550", "U+2550", "U+2550", "U+2550", "U+2550", "U+2550", "U+2550",
       "U+2550", "U+2550", "U+2550", "U+2550", "U+2550", "U+2550", "U+2550", "U+2550", "U+2550", "U+2550", "U+2550", "U+2550",
       "U+2550", "U+2550", "U+2550", "U+2550", "U+2550", "U+2550", "U+2550", "U+2550", "U+2550", "U+2550", "U+2550", "U+2550",
       "U+2550", "U+2550", "U+2550", "U+2550", "U+2550", "U+2557", "\n", "U+2551", " ", " ", " ", " ",
       " ", " ", " ", " ", " ", "F", "I", "N", "A", "L", " ", "R",
       "O", "U", "N", "D", " ", "-", " ", "T", "I", "M", "E", " ",
       "T", "O", " ", "A", "C", "C", "U", "S", "E", " ", " ", " ",
       " ", " ", " ", " ", " ", " ", " ", " ", " ", " ", " ", " ",
       " ", " ", " ", " ", " ", " ", " ", " ", " ", " ", " ", "U+2551",
       "\n", "U+255A", "U+2550", "U+2550", "U+2550", "U+2550", "U+2550", "U+2550", "U+2550", "U+2550", "U+2550", "U+2550",
       "U+2550", "U+2550", "U+2550", "U+2550", "U+2550", "U+2550", "U+2550", "U+2550", "U+2550", "U+2550", "U+2550", "U+2550",
       "U+2550", "U+2550", "U+2550", "U+2550", "U+2550", "U+2550", "U+2550", "U+2550", "U+2550", "U+2550", "U+2550", "U+2550",
       "U+2550", "U+2550", "U+2550", "U+2550", "U+2550", "U+2550", "U+2550", "U+2550", "U+2550", "U+2550", "U+2550", "U+2550",
       "U+2550", "U+2550", "U+2550", "U+2550", "U+2550", "U+2550", "U+2550", "U+2550", "U+2550", "U+2550", "U+2550", "U+2550",
       "U+2550", "U+2550", "U+2550", "U+2550", "U+2550", "U+255D", "\n" >>

AnnouncementFinal2 ==
    << "\n", "T", "h", "e", " ", "i", "n", "v", "e", "s", "t", "i",
       "g", "a", "t", "i", "o", "n", " ", "i", "s", " ", "c", "o",
       "m", "p", "l", "e", "t", "e", ".", " ", "\n", "\n", "I", "t",
       "'", "s", " ", "t", "i", "m", "e", " ", "t", "o", " ", "d",
       "e", "c", "i", "d", "e", ":", " ", "W", "H", "O", " ", "K",
       "I", "L", "L", "E", "D", " ", "E", "L", "I", "Z", "A", "B",
       "E", "T", "H", " ", "K", "I", "L", "L", "I", "N", "G", "S",
       "W", "O", "R", "T", "H", "?", "\n", "E", "a", "c", "h", " ",
       "o", "f", " ", "y", "o", "u", " ", "m", "u", "s", "t", " ",
       "n", "o", "w", " ", "m", "a", "k", "e", " ", "y", "o", "u",
       "r", " ", "f", "i", "n", "a", "l", " ", "a", "c", "c", "u",
       "s", "a", "t", "i", "o", "n", "!", "\n" >>

\* GameMaster.announce_round_change
AnnounceRoundChange(new_round, files) ==
    LET clue_number == new_round - 1
        clue_text == IF clue_number >= 1 THEN LoadClue(files, clue_number) ELSE <<>>
        clue_section == IF clue_text /= <<>>
                        THEN ClueSection1 \o clue_text \o ClueSection2
                        ELSE <<>>
        final_clue == LoadClue(files, 5)
        final_clue_section == IF final_clue /= <<>>
                              THEN FinalClueSection1 \o final_clue \o FinalClueSection2
                              ELSE <<>>
    IN  IF new_round = 2
        THEN AnnouncementRound21 \o IntText(new_round) \o AnnouncementRound22
                 \o clue_section \o AnnouncementRound23
        ELSE IF new_round <= 5
        THEN AnnouncementRound1 \o IntText(new_round) \o AnnouncementRound2
                 \o clue_section \o AnnouncementRound3
        ELSE AnnouncementFinal1 \o final_clue_section \o AnnouncementFinal2

\* is_game_complete without its round-5 clause
IsGameCompleteLate(cur_round, conv_in_round, conv_per_round) ==
    cur_round >= 6

IsGameComplete(cur_round, conv_in_round, conv_per_round) ==
    cur_round >= 6 \/ (cur_round = 5 /\ conv_in_round >= conv_per_round)

-----------------------------------------------------------------------------
(* GameMaster: speaker selection.                                          *)

StrComma == <<",">>
StrQuestionMark == <<"?">>
StrAsk == <<"a","s","k"," ">>
StrCanYou == <<" ","c","a","n"," ","y","o","u">>
StrCommaCanYou == <<",">> \o StrCanYou
StrWhat == <<" ","w","h","a","t">>
StrCommaWhat == <<",">> \o StrWhat
StrWhere == <<" ","w","h","e","r","e">>
StrWhy == <<" ","w","h","y">>
StrTellUs == <<" ","t","e","l","l"," ","u","s">>
StrTo == <<"t","o"," ">>

\* the pattern list built for one agent name
AddressPatterns(agent_name) ==
    LET name_lower == Lower(agent_name)
        first_name == IF " " \in Range(name_lower) THEN FirstWord(name_lower)
                      ELSE name_lower
    IN  << name_lower \o StrComma,        first_name \o StrComma,
           name_lower \o StrQuestionMark, first_name \o StrQuestionMark,
           StrAsk \o name_lower,          StrAsk \o first_name,
           name_lower \o StrCanYou,       first_name \o StrCanYou,
           name_lower \o StrCommaCanYou,  first_name \o StrCommaCanYou,
           name_lower \o StrWhat,         first_name \o StrWhat,
           name_lower \o StrCommaWhat,    first_name \o StrCommaWhat,
           name_lower \o StrWhere,        first_name \o StrWhere,
           name_lower \o StrWhy,          first_name \o StrWhy,
           name_lower \o StrTellUs,       first_name \o StrTellUs,
           StrTo \o name_lower,           StrTo \o first_name >>

\* some pattern of the agent occurs in text_lower
IsAddressed(agent_name, text_lower) ==
    LET patterns == AddressPatterns(agent_name)
    IN  \E i \in 1..Len(patterns) : Contains(patterns[i], text_lower)

\* _detect_direct_address returning the last match, not the first
DetectDirectAddressLast(text, available_agents) ==
    LET text_lower == Lower(text)
        Hit(n) == IsAddressed(n, text_lower)
        hits == SelectSeq(available_agents, Hit)
    IN  IF hits = <<>> THEN None ELSE hits[Len(hits)]

\* _detect_direct_address: the first agent of available_agents, in list
\* order, one of whose patterns occurs in the lowercased text; None if there
\* is none
DetectDirectAddress(text, available_agents) ==
    LET text_lower == Lower(text)
        Hit(n) == IsAddressed(n, text_lower)
        hits == SelectSeq(available_agents, Hit)
    IN  IF hits = <<>> THEN None ELSE Head(hits)

\* available without the exclusion of the last speaker
AvailableAll(agent_names, lastSpeaker) == agent_names

\* available: every agent name but the last speaker's
Available(agent_names, lastSpeaker) ==
    LET NotLast(n) == n /= lastSpeaker
    IN  IF Truthy(lastSpeaker) THEN SelectSeq(agent_names, NotLast)
        ELSE agent_names

\* sorted(items, key=importance, reverse=True): Python's sort is stable, also
\* under reverse=True, so entries of equal importance keep their dict order
SortedByUrgency(items) ==
    LET Rank(i) ==
            Cardinality({j \in 1..Len(items) :
                            items[j].importance > items[i].importance})
            + Cardinality({j \in 1..i :
                              items[j].importance = items[i].importance})
    IN  [k \in 1..Len(items) |->
            items[CHOOSE i \in 1..Len(items) : Rank(i) = k]]

\* max(thoughts.items(), key=importance): the first entry, in dict order,
\* of the greatest importance
MaxUrgency(thts) ==
    LET best == CHOOSE i \in 1..Len(thts) :
                    /\ \A j \in 1..Len(thts) : thts[j].importance <= thts[i].importance
                    /\ \A j \in 1..(i - 1) : thts[j].importance < thts[i].importance
    IN  thts[best]

\* "Respond to {last_speaker}'s question/statement"
StrRespondTo == <<"R","e","s","p","o","n","d"," ","t","o"," ">>
StrQuestionStatement ==
    <<"'","s"," ","q","u","e","s","t","i","o","n","/",
      "s","t","a","t","e","m","e","n","t">>
RespondToConstraint(lastSpeaker) ==
    StrRespondTo \o lastSpeaker \o StrQuestionStatement

\* the validation of the tie-break answer: kept if it is one of top_agents,
\* else the first of top_agents that contains it or is contained in it, else
\* top_agents[0]; None stands for the IndexError of top_agents[0] on an
\* empty list
ValidatedChoice(answer, top_agents) ==
    LET Close(a) == Contains(Lower(a), Lower(answer)) \/ Contains(Lower(answer), Lower(a))
        close == SelectSeq(top_agents, Close)
    IN  IF answer \in Range(top_agents) THEN answer
        ELSE IF close /= <<>> THEN Head(close)
        ELSE IF top_agents /= <<>> THEN top_agents[1]
        ELSE None

\* the except branch: the entry of greatest importance of all thoughts
FallbackDecision(thts) ==
    [next_speaker |-> MaxUrgency(thts).name,
     response_constraint |-> None,
     is_direct_address |-> FALSE,
     llm_invoked |-> TRUE]

\* the try block: llm is what llm_decide.invoke does, an answer
\* [raised |-> FALSE, next_speaker, response_constraint, is_direct_address]
\* or an exception [raised |-> TRUE]
TieBreakDecision(thts, top_agents, llm) ==
    IF llm.raised THEN FallbackDecision(thts)
    ELSE LET choice == ValidatedChoice(llm.next_speaker, top_agents)
         IN  IF choice = None THEN FallbackDecision(thts)
             ELSE [next_speaker |-> choice,
                   response_constraint |-> llm.response_constraint,
                   is_direct_address |-> llm.is_direct_address,
                   llm_invoked |-> TRUE]

\* a selection among the agents that want to speak only
SelectionOfSpeakIntents(hist, lastSpeaker, agent_names, thts) ==
    LET available == Available(agent_names, lastSpeaker)
        IsAvailable(t) == t.name \in Range(available) /\ t.action = "speak"
        available_thoughts == SelectSeq(thts, IsAvailable)
        sorted_by_urgency == SortedByUrgency(available_thoughts)
        highest_score == sorted_by_urgency[1].importance
        IsTop(t) == t.importance = highest_score
        top_items == SelectSeq(sorted_by_urgency, IsTop)
    IN  [directly_addressed |->
             IF hist /= <<>> THEN DetectDirectAddress(hist[Len(hist)].text, available)
             ELSE None,
         has_available_thoughts |-> available_thoughts /= <<>>,
         top_agents |->
             IF available_thoughts /= <<>>
             THEN [i \in 1..Len(top_items) |-> top_items[i].name]
             ELSE available]

\* decide_next_speaker up to the tie-break call: who was directly addressed
\* (or None), and the tied agents top_agents (available itself when no
\* available agent has a thought)
Selection(hist, lastSpeaker, agent_names, thts) ==
    LET available == Available(agent_names, lastSpeaker)
        IsAvailable(t) == t.name \in Range(available)
        available_thoughts == SelectSeq(thts, IsAvailable)
        sorted_by_urgency == SortedByUrgency(available_thoughts)
        highest_score == sorted_by_urgency[1].importance
        IsTop(t) == t.importance = highest_score
        top_items == SelectSeq(sorted_by_urgency, IsTop)
    IN  [directly_addressed |->
             IF hist /= <<>> THEN DetectDirectAddress(hist[Len(hist)].text, available)
             ELSE None,
         has_available_thoughts |-> available_thoughts /= <<>>,
         top_agents |->
             IF available_thoughts /= <<>>
             THEN [i \in 1..Len(top_items) |-> top_items[i].name]
             ELSE available]

\* whether decide_next_speaker reaches llm_decide.invoke
InvokesLlm(sel) ==
    /\ ~Truthy(sel.directly_addressed)
    /\ ~(sel.has_available_thoughts /\ Len(sel.top_agents) = 1)

\* the SpeakerDecision returned for a selection; llm_invoked records whether
\* llm_decide was called
DecisionOf(sel, lastSpeaker, thts, llm) ==
    IF Truthy(sel.directly_addressed)
    THEN [next_speaker |-> sel.directly_addressed,
          response_constraint |-> RespondToConstraint(lastSpeaker),
          is_direct_address |-> TRUE,
          llm_invoked |-> FALSE]
    ELSE IF sel.has_available_thoughts /\ Len(sel.top_agents) = 1
    THEN [next_speaker |-> sel.top_agents[1],
          response_constraint |-> None,
          is_direct_address |-> FALSE,
          llm_invoked |-> FALSE]
    ELSE TieBreakDecision(thts, sel.top_agents, llm)

\* decide_next_speaker(state, thoughts); thts is the thoughts dict as the
\* sequence of its items
DecideNextSpeaker(hist, lastSpeaker, agent_names, thts, llm) ==
    DecisionOf(Selection(hist, lastSpeaker, agent_names, thts), lastSpeaker, thts, llm)

-----------------------------------------------------------------------------
(* agents/agent.py: the capability calls and their retry wrapper.          *)
(*                                                                         *)
(* A capability (llm_think, llm, llm_accuse) is given by its behaviour:   *)
(* what its successive invocations do, each one returning a value          *)
(* [kind |-> "ok", value] or raising [kind |-> "error", error], error     *)
(* being the text of the exception.                                        *)

\* _retry_with_backoff's max_retries
MaxRetries == 5

\* exception texts: two that the wrapper takes for a rate limit, one other
Err429 == <<"H","T","T","P"," ","4","2","9">>
ErrRateLimit == <<"R","a","t","e","_","L","i","m","i","t">>
ErrTimeout == <<"t","i","m","e","o","u","t">>
ErrorTexts == {Err429, ErrRateLimit, ErrTimeout}

Str429 == <<"4","2","9">>
StrRateLimit == <<"r","a","t","e","_","l","i","m","i","t">>

\* '429' in error_str or 'rate_limit' in error_str.lower()
IsRateLimit(error_str) ==
    Contains(Str429, error_str) \/ Contains(StrRateLimit, Lower(error_str))

\* what one invocation can do, for the values a capability can return
Attempts(values) ==
    {[kind |-> "ok", value |-> v] : v \in values} \cup
    {[kind |-> "error", error |-> e] : e \in ErrorTexts}

\* the behaviours drawn: one invocation more than the wrapper can make
Behaviours(values) == [1..(MaxRetries + 1) -> Attempts(values)]

\* the loop of _retry_with_backoff from attempt (0-based) on: the value
\* returned or the exception raised, and the invocations made so far
RECURSIVE RetryFrom(_, _)
RetryFrom(behaviour, attempt) ==
    IF attempt >= MaxRetries
    THEN [raised |-> TRUE, value |-> <<>>, attempts |-> attempt]
    ELSE LET outcome == behaviour[attempt + 1]
         IN  IF outcome.kind = "ok"
             THEN [raised |-> FALSE, value |-> outcome.value, attempts |-> attempt + 1]
             ELSE IF IsRateLimit(outcome.error)
             THEN RetryFrom(behaviour, attempt + 1)
             ELSE [raised |-> TRUE, value |-> <<>>, attempts |-> attempt + 1]

\* the loop retrying after every exception, rate limit or not
RECURSIVE RetryFromAnyError(_, _)
RetryFromAnyError(behaviour, attempt) ==
    IF attempt >= MaxRetries
    THEN [raised |-> TRUE, value |-> <<>>, attempts |-> attempt]
    ELSE LET outcome == behaviour[attempt + 1]
         IN  IF outcome.kind = "ok"
             THEN [raised |-> FALSE, value |-> outcome.value, attempts |-> attempt + 1]
             ELSE RetryFromAnyError(behaviour, attempt + 1)

RetryWithBackoffAnyError(behaviour) == RetryFromAnyError(behaviour, 0)

\* _retry_with_backoff(func), func being the capability of that behaviour
RetryWithBackoff(behaviour) == RetryFrom(behaviour, 0)

\* think's fallback ThinkResult, and the one think_all stores for a think
\* task that raised
ThinkFallback == [action |-> "listen", importance |-> 3]
ThinkAllFallback == [action |-> "listen", importance |-> 1]

\* the bounds of ThinkResult.importance: Field(ge=0, le=9)
MinImportance == 0
MaxImportance == 9

\* the text of the validation error of an importance out of bounds, which
\* quotes the value
StrInputValue == <<"i","n","p","u","t","_","v","a","l","u","e","=">>
ErrValidation(importance) == StrInputValue \o IntText(importance)

\* llm.with_structured_output(ThinkResult): an answer whose importance is
\* out of bounds is not returned, the invocation raises the validation error
WithStructuredOutput(outcome) ==
    IF outcome.kind = "ok" /\ outcome.value.importance \notin MinImportance..MaxImportance
    THEN [kind |-> "error", error |-> ErrValidation(outcome.value.importance)]
    ELSE outcome

-----------------------------------------------------------------------------
(* memory/agent_memory.py: the memory of an agent, a ShortTermMemory       *)
(* buffer, a LongTermMemory and a KnowledgeGraph.                          *)

MinLevel == -5
MaxLevel == 5

\* the window size of every agent (Agent.__init__)
AgentWindowSize == 10

Min(a, b) == IF a <= b THEN a ELSE b
Max(a, b) == IF a >= b THEN a ELSE b

\* the level of a target, 0 for one that is not tracked (Suspicion.level)
LevelOf(susp, target) ==
    IF target \in DOMAIN susp THEN susp[target].level ELSE 0

ReasonsOf(susp, target) ==
    IF target \in DOMAIN susp THEN susp[target].reasons ELSE <<>>

\* a level that is not clamped
UnclampedLevel(level, delta) == level + delta

\* max(-5, min(5, level + delta))
ClampedLevel(level, delta) == Max(MinLevel, Min(MaxLevel, level + delta))

\* an update that starts from a fresh Suspicion whether or not the target is
\* tracked
UpdateSuspicionReturnFresh(susp, target, delta, reason) ==
    [t \in DOMAIN susp \cup {target} |->
        IF t = target
        THEN [level |-> ClampedLevel(0, delta), reasons |-> <<reason>>]
        ELSE susp[t]]

\* KnowledgeGraph.update_suspicion: the suspicions afterwards
UpdateSuspicionReturn(susp, target, delta, reason) ==
    [t \in DOMAIN susp \cup {target} |->
        IF t = target
        THEN [level |-> ClampedLevel(LevelOf(susp, target), delta),
              reasons |-> Append(ReasonsOf(susp, target), reason)]
        ELSE susp[t]]

\* seq[-k:] of Python: the whole list for k = 0, the last k items (all when
\* there are fewer) for k > 0, the list without its first -k items for k < 0
PyLastSlice(seq, k) ==
    LET start == IF k > 0 THEN Max(Len(seq) - k, 0) ELSE Min(0 - k, Len(seq))
    IN  SubSeq(seq, start + 1, Len(seq))

\* a buffer that takes the whole history
ShortTermUpdateWhole(window_size, hist) == hist

\* ShortTermMemory.update: the buffer afterwards
ShortTermUpdate(window_size, hist) ==
    IF hist /= <<>> THEN PyLastSlice(hist, window_size) ELSE <<>>

\* KnowledgeGraph.__init__: no suspicion is tracked
NoSuspicions == [target \in {} |-> [level |-> 0, reasons |-> <<>>]]

\* str.istitle(): at least one cased character, an upper-case one only after
\* an uncased one (or first), a lower-case one only after a cased one
UpperLetters ==
    {"A","B","C","D","E","F","G","H","I","J","K","L","M",
     "N","O","P","Q","R","S","T","U","V","W","X","Y","Z"}
IsUpperChar(c) == c \in UpperLetters
IsLowerChar(c) == c \in {LowerChar(u) : u \in UpperLetters}
IsCased(c) == IsUpperChar(c) \/ IsLowerChar(c)

IsTitle(word) ==
    /\ \E i \in 1..Len(word) : IsCased(word[i])
    /\ \A i \in 1..Len(word) :
          /\ IsUpperChar(word[i]) => (i = 1 \/ ~IsCased(word[i - 1]))
          /\ IsLowerChar(word[i]) => (i > 1 /\ IsCased(word[i - 1]))

\* text.split(): the words between runs of whitespace
RECURSIVE Split(_)
Split(text) ==
    LET inked == {i \in 1..Len(text) : text[i] \notin Whitespace}
    IN  IF inked = {} THEN <<>>
        ELSE LET first == CHOOSE i \in inked : \A j \in inked : i <= j
                 blanks == {i \in first..Len(text) : text[i] \in Whitespace}
                 last == IF blanks = {} THEN Len(text)
                         ELSE (CHOOSE i \in blanks : \A j \in blanks : i <= j) - 1
             IN  <<SubSeq(text, first, last)>>
                     \o Split(SubSeq(text, last + 1, Len(text)))

\* text[:n]
Prefix(text, n) == SubSeq(text, 1, Min(n, Len(text)))

\* AgentMemory.__init__: an empty buffer, no alibi, an empty graph
NewMemory ==
    [short_term |-> <<>>,
     alibis |-> [person \in {} |-> <<>>],
     entities |-> [name \in {} |-> "person"],
     relations |-> <<>>,
     evidence |-> <<>>,
     suspicions |-> NoSuspicions]

\* KnowledgeGraph.add_entity without attributes: a known name keeps its type
AddEntity(entities, name, entity_type) ==
    [n \in DOMAIN entities \cup {name} |->
        IF n \in DOMAIN entities THEN entities[n] ELSE entity_type]

\* KnowledgeGraph.add_relation: both ends become entities, the relation is
\* appended
AddRelation(mem, source, relation_type, target, evidence, turn_discovered) ==
    [mem EXCEPT
        !.entities = AddEntity(AddEntity(@, source, "person"), target, "unknown"),
        !.relations = Append(@, [source |-> source,
                                 relation_type |-> relation_type,
                                 target |-> target, evidence |-> evidence,
                                 turn_discovered |-> turn_discovered])]

\* KnowledgeGraph.add_evidence
AddEvidence(mem, description, speaker, turn_heard, evidence_type, involves) ==
    [mem EXCEPT !.evidence =
        Append(@, [description |-> description, source_speaker |-> speaker,
                   turn |-> turn_heard, evidence_type |-> evidence_type,
                   involves |-> involves])]

StrIWas == <<"i"," ","w","a","s">>
StrIWent == <<"i"," ","w","e","n","t">>
StrYouKilled == <<"y","o","u"," ","k","i","l","l","e","d">>
StrMurderer == <<"m","u","r","d","e","r","e","r">>
StrSuspect == <<"s","u","s","p","e","c","t">>
StrSaw == <<"s","a","w">>
StrSeen == <<"s","e","e","n">>
StrNoticed == <<"n","o","t","i","c","e","d">>
StrsAlibi == <<"'","s"," ","a","l","i","b","i",":"," ">>
StrAccusedBy == <<"A","c","c","u","s","e","d"," ","b","y"," ">>

\* the accusation cues of process_new_message
HasAccusationCue(text) ==
    Contains(StrYouKilled, text) \/ Contains(StrMurderer, text)
        \/ Contains(StrSuspect, text)

\* the word process_new_message takes for the accused: the first word of
\* the words given that is title-case and is not the speaker, <<>> when
\* there is none
AccusedWord(words, speaker) ==
    LET hits == {i \in 1..Len(words) : IsTitle(words[i]) /\ words[i] /= speaker}
    IN  IF hits = {} THEN <<>>
        ELSE << words[CHOOSE i \in hits : \A j \in hits : i <= j] >>

\* the accusation step of process_new_message: text is the lower-cased
\* message and its words are the ones tested with istitle()
ProcessAccusation(mem, message, turn_heard) ==
    LET text == Lower(message.text)
        accused == AccusedWord(Split(text), message.speaker)
    IN  IF HasAccusationCue(text) /\ accused /= <<>>
        THEN [AddRelation(mem, message.speaker, "accused", accused[1],
                          Prefix(message.text, 50), turn_heard)
                 EXCEPT !.suspicions =
                     UpdateSuspicionReturn(@, accused[1], 1,
                                           StrAccusedBy \o message.speaker)]
        ELSE mem

\* AgentMemory.process_new_message(message, turn): the memory afterwards
ProcessNewMessage(mem, message, turn_heard) ==
    LET speaker == message.speaker
        text == Lower(message.text)
        known == [mem EXCEPT !.entities = AddEntity(@, speaker, "person")]
        alibi ==
            IF Contains(StrIWas, text) \/ Contains(StrIWent, text)
            THEN AddEvidence(
                     [known EXCEPT !.alibis =
                         [p \in DOMAIN @ \cup {speaker} |->
                             IF p = speaker THEN Prefix(message.text, 100)
                             ELSE @[p]]],
                     speaker \o StrsAlibi \o Prefix(message.text, 100),
                     speaker, turn_heard, "alibi", <<speaker>>)
            ELSE known
        accusation == ProcessAccusation(alibi, message, turn_heard)
    IN  IF Contains(StrSaw, text) \/ Contains(StrSeen, text)
               \/ Contains(StrNoticed, text)
        THEN AddEvidence(accusation, Prefix(message.text, 100), speaker,
                         turn_heard, "testimony", <<speaker>>)
        ELSE accusation

\* Agent.update_memory(state): the buffer is refreshed and the last message
\* of a non-empty history is processed
UpdateMemory(mem, hist, state_turn) ==
    LET refreshed == [mem EXCEPT !.short_term = ShortTermUpdate(AgentWindowSize, hist)]
    IN  IF hist /= <<>>
        THEN ProcessNewMessage(refreshed, hist[Len(hist)], state_turn)
        ELSE refreshed

\* think tasks that write the memory of every agent
ThinkersMemoryShared(mem, thinkers, hist, state_turn) ==
    [a \in DOMAIN mem |-> UpdateMemory(mem[a], hist, state_turn)]

\* the memories after the think tasks of thinkers have run update_memory:
\* Agent.think writes self.memory only
ThinkersMemory(mem, thinkers, hist, state_turn) ==
    [a \in DOMAIN mem |->
        IF a \in thinkers THEN UpdateMemory(mem[a], hist, state_turn) ELSE mem[a]]


-----------------------------------------------------------------------------
(* agents/agent.py *)

\* a capability that returns the model's answer without validating it
LlmThinkUnvalidated(behaviour) == behaviour

\* llm_think.invoke, behaviour being what the model answers
LlmThinkInvoke(behaviour) ==
    [i \in DOMAIN behaviour |-> WithStructuredOutput(behaviour[i])]

\* Agent.think: update_memory, outside the try, may raise; the wrapped
\* llm_think call falls back to ThinkFallback
AgentThink(memory_raises, behaviour) ==
    IF memory_raises THEN [raised |-> TRUE, value |-> <<>>, attempts |-> 0]
    ELSE LET r == RetryWithBackoff(LlmThinkInvoke(behaviour))
         IN  [raised |-> FALSE,
              value |-> IF r.raised THEN ThinkFallback ELSE r.value,
              attempts |-> r.attempts]

StrThinksCarefully == <<":"," ","(","t","h","i","n","k","s"," ","c","a","r","e","f","u","l","l","y",")">>
StrNeedToThink == <<":"," ","(","I"," ","n","e","e","d"," ","t","o"," ","t","h","i","n","k"," ","a","b","o","u","t"," ","t","h","i","s",")">>

\* Agent.speak: the content returned, "<name>: (thinks carefully)" for an
\* empty content, "<name>: (I need to think about this)" when the call fails
AgentSpeak(name, behaviour) ==
    LET r == RetryWithBackoff(behaviour)
    IN  [raised |-> FALSE,
         value |-> IF r.raised THEN name \o StrNeedToThink
                   ELSE IF r.value /= <<>> THEN r.value
                   ELSE name \o StrThinksCarefully,
         attempts |-> r.attempts]

\* accuse returning whatever name the capability answered
AgentAccuseUnvalidated(name, all_agents, memory_raises, behaviour) ==
    LET NotSelf(n) == n /= name
        other_agents == SelectSeq(all_agents, NotSelf)
        r == RetryWithBackoff(behaviour)
    IN  IF memory_raises THEN [raised |-> TRUE, value |-> <<>>, attempts |-> 0]
        ELSE IF ~r.raised
        THEN [raised |-> FALSE, value |-> r.value, attempts |-> r.attempts]
        ELSE IF other_agents /= <<>>
        THEN [raised |-> FALSE, value |-> other_agents[1], attempts |-> r.attempts]
        ELSE [raised |-> TRUE, value |-> <<>>, attempts |-> r.attempts]

\* Agent.accuse: the accused returned is validated against the other
\* agents as the tie-break answer is against the tied ones; a failed call,
\* and the IndexError of other_agents[0] inside the try, fall back to
\* other_agents[0], which raises IndexError when there is no other agent
AgentAccuse(name, all_agents, memory_raises, behaviour) ==
    LET NotSelf(n) == n /= name
        other_agents == SelectSeq(all_agents, NotSelf)
        r == RetryWithBackoff(behaviour)
        accused == IF r.raised THEN None ELSE ValidatedChoice(r.value, other_agents)
    IN  IF memory_raises THEN [raised |-> TRUE, value |-> <<>>, attempts |-> 0]
        ELSE IF accused /= None
        THEN [raised |-> FALSE, value |-> accused, attempts |-> r.attempts]
        ELSE IF other_agents /= <<>>
        THEN [raised |-> FALSE, value |-> other_agents[1], attempts |-> r.attempts]
        ELSE [raised |-> TRUE, value |-> <<>>, attempts |-> r.attempts]

-----------------------------------------------------------------------------
(* What is not in use: no function called on its own, an empty memory.     *)

\* load_round_description's folder name: lower case, blanks to dashes
FolderName(name) ==
    [i \in 1..Len(name) |-> IF name[i] = " " THEN "-" ELSE LowerChar(name[i])]

\* a folder that load_round_description takes for the character's when the
\* folder of that name has no description: not starting with "_", and
\* equal to the name in lower case and with dashes as blanks
AlternativeFolder(dir, name) ==
    /\ dir /= <<>>
    /\ dir[1] /= "_"
    /\ [i \in 1..Len(dir) |-> IF dir[i] = "-" THEN " " ELSE LowerChar(dir[i])] = Lower(name)

\* utils.agent_helper.load_round_description: the stripped description of
\* the round, from the character's folder or an alternative one, else ""
LoadRoundDescription(files, name, round_num) ==
    LET alternatives == {d \in {key[1] : key \in DOMAIN files} :
                            /\ AlternativeFolder(d, name)
                            /\ <<d, round_num>> \in DOMAIN files}
    IN  IF <<FolderName(name), round_num>> \in DOMAIN files
        THEN Strip(files[<<FolderName(name), round_num>>])
        ELSE IF alternatives /= {}
        THEN Strip(files[<<CHOOSE d \in alternatives : TRUE, round_num>>])
        ELSE <<>>

\* Agent.__init__: current_round and accumulated_knowledge
NewAgent == [current_round |-> 0, accumulated_knowledge |-> <<>>]

\* Agent.update_round: nothing on the agent's own round; else the round is
\* taken and a non-empty description is appended to accumulated_knowledge
\* as the section "=== ROUND <n> INFORMATION ===" with its text
UpdateRound(agent, name, round_num, files) ==
    IF round_num = agent.current_round THEN agent
    ELSE LET round_desc == LoadRoundDescription(files, name, round_num)
         IN  [current_round |-> round_num,
              accumulated_knowledge |->
                  IF round_desc /= <<>>
                  THEN Append(agent.accumulated_knowledge,
                              [round |-> round_num, text |-> round_desc])
                  ELSE agent.accumulated_knowledge]

\* the agent after update_round(1), ..., update_round(r)
RECURSIVE AgentAfterRounds(_, _, _)
AgentAfterRounds(name, r, files) ==
    IF r = 0 THEN NewAgent
    ELSE UpdateRound(AgentAfterRounds(name, r - 1, files), name, r, files)

\* LongTermMemory.add_clue
AddClue(clues, clue) == IF clue \in Range(clues) THEN clues ELSE Append(clues, clue)

\* no clue file and no round description
NoClueFiles == [n \in {} |-> <<>>]
NoRoundFiles == [key \in {} |-> <<>>]

NoFiles == clue_files = NoClueFiles /\ round_files = NoRoundFiles

\* the agents as the runner creates them and r rounds of update_round
\* leave them, no clue received and no think task submitted
AgentsIn(r) ==
    /\ futures = <<>>
    /\ accumulated_knowledge =
           [a \in Range(agents) |->
               AgentAfterRounds(a, r, round_files).accumulated_knowledge]
    /\ clues_received = [a \in Range(agents) |-> <<>>]
    /\ round_updates = [a \in Range(agents) |-> [i \in 1..r |-> i]]


NoCalls == call = <<>> /\ returned = <<>>

EmptyMemory ==
    /\ suspicions = NoSuspicions
    /\ facts = <<>>
    /\ agent_memory = [name \in Range(agents) |-> NewMemory]

-----------------------------------------------------------------------------
(* run_discussion.py: the initial state.                                   *)

\* build_graph's default max_turns
DefaultMaxTurns == 3

\* the runner's turn budget
RunnerMaxTurns(conv_per_round) == 6 * conv_per_round + 10

\* the state handed to app.invoke by the runner, for a roster of the first
\* n characters; max_turns is the runner's budget or build_graph's default
Init ==
    /\ \E n \in 0..Len(LoopRoster) : agents = SubSeq(LoopRoster, 1, n)
    /\ conversations_per_round \in 1..MaxConversationsPerRound
    /\ max_turns \in {DefaultMaxTurns, RunnerMaxTurns(conversations_per_round)}
    /\ pc = "think_all"
    /\ turn = 0
    /\ current_round = 1
    /\ conversations_in_round = 0
    /\ history = << [turn |-> 0, speaker |-> GameMasterName,
                     text |-> murder_announcement] >>
    /\ thoughts = <<>>
    /\ last_speaker = GameMasterName
    /\ pending_obligation = <<>>
    /\ next_speaker = None
    /\ new_utterance = <<>>
    /\ done = FALSE
    /\ phase = "introduction"
    /\ decision = <<>>
    /\ agent_round = [a \in Range(agents) |-> 1]
    /\ speak_call = <<>>
    /\ NoCalls
    /\ EmptyMemory
    /\ NoFiles
    /\ AgentsIn(current_round)

-----------------------------------------------------------------------------
(* graphs/discussion.py: the nodes.                                        *)

\* the orders in which the think futures of the agents can complete
CompletionOrders(names) ==
    {p \in [1..Len(names) -> Range(names)] :
        \A i, j \in 1..Len(names) : i /= j => p[i] /= p[j]}

\* thoughts keyed by position of arrival: the i-th future to complete gets
\* the result of the i-th agent
ThoughtsDictByArrival(names, order, result) ==
    [i \in 1..Len(names) |->
        [name |-> order[i], action |-> result[names[i]].action,
         importance |-> result[names[i]].importance]]

\* the thoughts dict think_all builds from every agent's result when the
\* futures complete in that order: thoughts[name] = result of name's future
ThoughtsDict(names, order, result) ==
    [i \in 1..Len(names) |->
        [name |-> order[i], action |-> result[order[i]].action,
         importance |-> result[order[i]].importance]]

\* the thoughts dicts think_all can build: every agent's result, inserted
\* in the order the futures complete
ThoughtsDicts(names, results) ==
    {ThoughtsDict(names, order, result) :
     order \in CompletionOrders(names), result \in [Range(names) -> results]}

\* a behaviour that starts with prefix and goes on with rest for ever
BehaviourOf(prefix, rest) ==
    [i \in 1..(MaxRetries + 1) |-> IF i <= Len(prefix) THEN prefix[i] ELSE rest]

Ok(v) == [kind |-> "ok", value |-> v]
Raise(e) == [kind |-> "error", error |-> e]

\* what think_all stores for a think task: its result, or ThinkAllFallback
\* when the task raised
ThinkAllEntry(think_call) ==
    LET t == AgentThink(think_call.memory_raises, think_call.behaviour)
    IN  IF t.raised THEN ThinkAllFallback ELSE t.value

\* think_all without its try/except around future.result()
ThinkAllReturnUnguarded(cur_round, names, order, think_calls) ==
    IF cur_round = 1 \/ names = <<>>
    THEN [raised |-> FALSE, thoughts |-> <<>>]
    ELSE IF \E a \in Range(names) : think_calls[a].memory_raises
    THEN [raised |-> TRUE, thoughts |-> <<>>]
    ELSE [raised |-> FALSE,
          thoughts |-> ThoughtsDict(names, order,
                           [a \in Range(names) |-> ThinkAllEntry(think_calls[a])])]

\* think_all: {} in round 1 or without agents; else every agent's entry,
\* inserted in the order the futures complete
ThinkAllReturn(cur_round, names, order, think_calls) ==
    IF cur_round = 1 \/ names = <<>>
    THEN [raised |-> FALSE, thoughts |-> <<>>]
    ELSE [raised |-> FALSE,
          thoughts |-> ThoughtsDict(names, order,
                           [a \in Range(names) |-> ThinkAllEntry(think_calls[a])])]

\* the think tasks of the full turn loop: llm_think returns at once
LoopThinkCalls ==
    {[memory_raises |-> FALSE, behaviour |-> BehaviourOf(<<>>, Ok(r))] :
     r \in LoopThinkResults}

\* think_all: no thinking in round 1 or without agents; else every agent
\* thinks and thoughts is filled in the order the futures complete, the
\* order being one of orders and every think call one of calls
ThinkAllDrawing(orders, calls) ==
    /\ pc = "think_all"
    /\ IF current_round = 1 \/ agents = <<>>
       THEN /\ thoughts' = <<>>
            /\ UNCHANGED agent_memory
       ELSE /\ \E order \in orders, think_calls \in [Range(agents) -> calls] :
                  thoughts' = ThinkAllReturn(current_round, agents, order,
                                             think_calls).thoughts
            /\ agent_memory' = ThinkersMemory(agent_memory, Range(agents),
                                              history, turn)
    /\ pc' = "game_master_decide"
    /\ UNCHANGED <<speak_call, call_vars, suspicions, facts, rest_vars>>
    /\ UNCHANGED <<agents, max_turns, conversations_per_round, turn, current_round,
                   conversations_in_round, history, pending_obligation,
                   last_speaker, next_speaker, new_utterance, done, phase,
                   decision, agent_round>>

\* think_all, the futures completing in any order
ThinkAll == ThinkAllDrawing(CompletionOrders(agents), LoopThinkCalls)

\* what llm_decide.invoke can do in the tie-break: raise, or answer with a
\* name (a tied or an untied agent, a name in other case, a name with a
\* title, an unknown name, the empty string) and any constraint and flag
LlmAnswerNames ==
    Range(agents) \cup {Lower(Bob), <<"M","r"," ">> \o Cy, <<"z">>, <<>>}

LlmOutcomes ==
    {[raised |-> TRUE]} \cup
    [raised : {FALSE}, next_speaker : LlmAnswerNames,
     response_constraint : {None, <<>>, <<"x">>}, is_direct_address : BOOLEAN]

\* the outcome handed to DecisionOf when llm_decide is not reached
NoLlmCall == [raised |-> TRUE]

\* the speakers of a history
Speakers(hist) == {hist[i].speaker : i \in 1..Len(hist)}

\* round 1 always answering with agent_names[0]
IntroductionSpeakerFirst(agent_names, hist) ==
    IF agent_names /= <<>> THEN agent_names[1] ELSE None

\* round 1 of game_master_decide: the first agent that has not spoken yet,
\* else agent_names[0]; None stands for the IndexError of agent_names[0] on
\* an empty roster
IntroductionSpeaker(agent_names, hist) ==
    LET NotYet(n) == n \notin Speakers(hist)
        remaining == SelectSeq(agent_names, NotYet)
    IN  IF remaining /= <<>> THEN remaining[1]
        ELSE IF agent_names /= <<>> THEN agent_names[1]
        ELSE None

\* an obligation built for every decision, with or without a constraint
PendingOfAlways(d, lastSpeaker, hist) ==
    << [addressee |-> d.next_speaker,
        response_constraint |-> d.response_constraint,
        from_speaker |-> lastSpeaker,
        from_text |-> IF hist /= <<>> THEN hist[Len(hist)].text ELSE <<>>] >>

\* the pending obligation game_master_decide builds from a decision
PendingOf(d, lastSpeaker, hist) ==
    IF Truthy(d.response_constraint)
    THEN << [addressee |-> d.next_speaker,
             response_constraint |-> d.response_constraint,
             from_speaker |-> lastSpeaker,
             from_text |-> IF hist /= <<>> THEN hist[Len(hist)].text ELSE <<>>] >>
    ELSE <<>>

GameMasterDecideDrawing(outcomes) ==
    /\ pc = "game_master_decide"
    /\ IF current_round = 1
       THEN IF IntroductionSpeaker(agents, history) = None
            THEN \* IndexError: the run ends with the exception
                 /\ pc' = "raised"
                 /\ UNCHANGED <<next_speaker, pending_obligation, decision>>
            ELSE /\ next_speaker' = IntroductionSpeaker(agents, history)
                 /\ pending_obligation' = <<>>
                 /\ decision' = <<>>
                 /\ pc' = "speak"
       ELSE IF thoughts = <<>>
       THEN /\ next_speaker' = None
            /\ pending_obligation' = <<>>
            /\ decision' = <<>>
            /\ pc' = "speak"
       ELSE \E sel \in {Selection(history, last_speaker, agents, thoughts)} :
            \E llm \in IF InvokesLlm(sel) THEN outcomes ELSE {NoLlmCall} :
            \E d \in {DecisionOf(sel, last_speaker, thoughts, llm)} :
                /\ decision' = <<d>>
                /\ next_speaker' = d.next_speaker
                /\ pending_obligation' = PendingOf(d, last_speaker, history)
                /\ pc' = "speak"
    /\ UNCHANGED <<speak_call, call_vars, memory_vars, rest_vars>>
    /\ UNCHANGED <<agents, max_turns, conversations_per_round, turn, current_round,
                   conversations_in_round, history, thoughts, last_speaker,
                   new_utterance, done, phase, agent_round>>

\* game_master_decide, the tie-break call doing any of LlmOutcomes
GameMasterDecide == GameMasterDecideDrawing(LlmOutcomes)

\* the constraint speak hands to the agent
ConstraintFor(speaker, pending) ==
    IF pending /= <<>> /\ pending[1].addressee = speaker
    THEN pending[1].response_constraint
    ELSE None

\* a speak node that never touches last_speaker
SpeakLastSpeakerKept(utterance, prior) == prior

\* the last_speaker speak returns: the speaker of the utterance it produced,
\* the one of the state when it produced none
SpeakLastSpeaker(utterance, prior) ==
    IF utterance = <<>> THEN prior ELSE utterance[1].speaker

\* speak: the selected agent says some text
SpeakDrawing(texts) ==
    /\ pc = "speak"
    /\ IF ~Truthy(next_speaker) \/ next_speaker \notin Range(agents)
       THEN /\ new_utterance' = <<>>
            /\ speak_call' = <<>>
       ELSE \E text \in texts :
            /\ new_utterance' = << [turn |-> turn, speaker |-> next_speaker,
                                    text |-> text] >>
            /\ speak_call' = << [speaker |-> next_speaker,
                                 response_constraint |->
                                     ConstraintFor(next_speaker, pending_obligation)] >>
    /\ last_speaker' = SpeakLastSpeaker(new_utterance', last_speaker)
    /\ pc' = "update_history"
    /\ UNCHANGED <<call_vars, memory_vars, rest_vars>>
    /\ UNCHANGED <<agents, max_turns, conversations_per_round, turn, current_round,
                   conversations_in_round, history, pending_obligation, thoughts,
                   next_speaker, done, phase, decision, agent_round>>

\* speak, the agent saying any of LoopTexts
Speak == SpeakDrawing(LoopTexts)

\* history without its reducer: the node's return value replaces the list
HistoryReducerOverwrite(old, update) == update

\* the reducer of GameState.history: operator.add
HistoryReducer(old, update) == old \o update

\* update_history returns [u] or []; new_utterance holds exactly that list
UpdateHistory ==
    /\ pc = "update_history"
    /\ history' = HistoryReducer(history, new_utterance)
    /\ pc' = "check_round_advance"
    /\ UNCHANGED <<speak_call, call_vars, memory_vars, rest_vars>>
    /\ UNCHANGED <<agents, max_turns, conversations_per_round, turn, current_round,
                   conversations_in_round, pending_obligation, thoughts,
                   last_speaker, next_speaker, new_utterance, done, phase,
                   decision, agent_round>>

\* check_round_advance with the two values of its round-advance return
\* swapped: the round takes the reset counter, the counter the new round
CheckRoundAdvanceReturnSwapped(cur_round, conv_in_round, hist, new_utt, agent_names, conv_per_round, cur_done, cur_phase) ==
    LET incremented == conv_in_round + 1
        speakers_so_far == Speakers(hist) \cup {new_utt[i].speaker : i \in 1..Len(new_utt)}
    IN  IF IsGameComplete(cur_round, incremented, conv_per_round)
        THEN [current_round |-> cur_round, conversations_in_round |-> incremented,
              done |-> TRUE, phase |-> "accusation"]
        ELSE IF cur_round = 1
        THEN IF Cardinality(speakers_so_far) >= Len(agent_names)
             THEN [current_round |-> 2, conversations_in_round |-> 0,
                   done |-> cur_done, phase |-> GetPhaseForRound(2)]
             ELSE [current_round |-> cur_round, conversations_in_round |-> incremented,
                   done |-> cur_done, phase |-> cur_phase]
        ELSE IF ShouldAdvanceRound(incremented, cur_round, conv_per_round)
        THEN [current_round |-> 0, conversations_in_round |-> cur_round + 1,
              done |-> cur_done, phase |-> GetPhaseForRound(cur_round + 1)]
        ELSE [current_round |-> cur_round, conversations_in_round |-> incremented,
              done |-> cur_done, phase |-> cur_phase]

\* check_round_advance counting a turn only if somebody spoke in it
CheckRoundAdvanceReturnSpoken(cur_round, conv_in_round, hist, new_utt, agent_names, conv_per_round, cur_done, cur_phase) ==
    LET incremented == conv_in_round + (IF new_utt = <<>> THEN 0 ELSE 1)
        speakers_so_far == Speakers(hist) \cup {new_utt[i].speaker : i \in 1..Len(new_utt)}
    IN  IF IsGameComplete(cur_round, incremented, conv_per_round)
        THEN [current_round |-> cur_round, conversations_in_round |-> incremented,
              done |-> TRUE, phase |-> "accusation"]
        ELSE IF cur_round = 1
        THEN IF Cardinality(speakers_so_far) >= Len(agent_names)
             THEN [current_round |-> 2, conversations_in_round |-> 0,
                   done |-> cur_done, phase |-> GetPhaseForRound(2)]
             ELSE [current_round |-> cur_round, conversations_in_round |-> incremented,
                   done |-> cur_done, phase |-> cur_phase]
        ELSE IF ShouldAdvanceRound(incremented, cur_round, conv_per_round)
        THEN [current_round |-> cur_round + 1, conversations_in_round |-> 0,
              done |-> cur_done, phase |-> GetPhaseForRound(cur_round + 1)]
        ELSE [current_round |-> cur_round, conversations_in_round |-> incremented,
              done |-> cur_done, phase |-> cur_phase]

\* what check_round_advance returns, as the new values of the four keys it
\* can set (a key it does not return keeps its value)
CheckRoundAdvanceReturn(cur_round, conv_in_round, hist, new_utt, agent_names, conv_per_round, cur_done, cur_phase) ==
    LET incremented == conv_in_round + 1
        speakers_so_far == Speakers(hist) \cup {new_utt[i].speaker : i \in 1..Len(new_utt)}
    IN  IF IsGameComplete(cur_round, incremented, conv_per_round)
        THEN [current_round |-> cur_round, conversations_in_round |-> incremented,
              done |-> TRUE, phase |-> "accusation"]
        ELSE IF cur_round = 1
        THEN IF Cardinality(speakers_so_far) >= Len(agent_names)
             THEN [current_round |-> 2, conversations_in_round |-> 0,
                   done |-> cur_done, phase |-> GetPhaseForRound(2)]
             ELSE [current_round |-> cur_round, conversations_in_round |-> incremented,
                   done |-> cur_done, phase |-> cur_phase]
        ELSE IF ShouldAdvanceRound(incremented, cur_round, conv_per_round)
        THEN [current_round |-> cur_round + 1, conversations_in_round |-> 0,
              done |-> cur_done, phase |-> GetPhaseForRound(cur_round + 1)]
        ELSE [current_round |-> cur_round, conversations_in_round |-> incremented,
              done |-> cur_done, phase |-> cur_phase]

\* the markers check_round_advance looks for in the announcement: in its
\* round-1 branch, in its other branch, and to find the start of the clue
StrNewClue == <<"N","E","W"," ","C","L","U","E",":">>
StrGlassNewClue == <<"U+1F50D"," ","N","E","W"," ","C","L","U","E",":">>
StrBlankNewClue == <<" ","N","E","W"," ","C","L","U","E",":">>

\* how far after its start the end of the clue is looked for
ClueEndOffset == 50

\* the clue check_round_advance takes from the announcement: None without
\* the marker of the branch
ExtractClue(marker, announcement) ==
    IF Contains(marker, announcement)
    THEN LET clue_start == Find(StrBlankNewClue, announcement, 0)
             from == clue_start + ClueEndOffset
             clue_end == IF Contains(<<"\n">>, PySlice(announcement, from, Len(announcement)))
                         THEN Find(<<"\n">>, announcement, from)
                         ELSE Len(announcement)
         IN  Strip(Replace(PySlice(announcement, clue_start, clue_end),
                           StrBlankNewClue, <<>>))
    ELSE None

\* the clue a round advance of check_round_advance gives the agents
ClueOfAdvance(cur_round, new_round, files) ==
    ExtractClue(IF cur_round = 1 THEN StrNewClue ELSE StrGlassNewClue,
                AnnounceRoundChange(new_round, files))

\* update_round for one agent only
UpdatedAgentsFirst(names) == IF names = <<>> THEN {} ELSE {names[1]}

\* the agents the loop of a round advance calls update_round for
UpdatedAgents(names) == Range(names)

\* check_round_advance; on a round advance every agent's update_round runs
\* and, when a clue was taken from the announcement, add_clue_to_memory
CheckRoundAdvance ==
    /\ pc = "check_round_advance"
    /\ LET r == CheckRoundAdvanceReturn(current_round, conversations_in_round,
                                        history, new_utterance, agents,
                                        conversations_per_round, done, phase)
       IN  /\ current_round' = r.current_round
           /\ conversations_in_round' = r.conversations_in_round
           /\ done' = r.done
           /\ phase' = r.phase
           /\ IF r.current_round /= current_round
              THEN \E clue \in {ClueOfAdvance(current_round, r.current_round, clue_files)} :
                   LET updated(a) ==
                           IF a \in UpdatedAgents(agents)
                           THEN UpdateRound([current_round |-> agent_round[a],
                                             accumulated_knowledge |-> accumulated_knowledge[a]],
                                            a, r.current_round, round_files)
                           ELSE [current_round |-> agent_round[a],
                                 accumulated_knowledge |-> accumulated_knowledge[a]]
                   IN  /\ agent_round' = [a \in Range(agents) |-> updated(a).current_round]
                       /\ accumulated_knowledge' =
                              [a \in Range(agents) |-> updated(a).accumulated_knowledge]
                       /\ round_updates' =
                              [a \in Range(agents) |->
                                  IF a \in UpdatedAgents(agents)
                                  THEN Append(round_updates[a], r.current_round)
                                  ELSE round_updates[a]]
                       /\ clues_received' =
                              [a \in Range(agents) |->
                                  IF Truthy(clue) THEN AddClue(clues_received[a], clue)
                                  ELSE clues_received[a]]
              ELSE UNCHANGED <<agent_round, knowledge_vars>>
    /\ pc' = "advance_turn"
    /\ UNCHANGED <<speak_call, call_vars, memory_vars, futures, file_vars>>
    /\ UNCHANGED <<agents, max_turns, conversations_per_round, turn, history,
                   pending_obligation, thoughts, last_speaker, next_speaker,
                   new_utterance, decision>>

\* advance_turn without the increment of turn
AdvanceTurnReturnStuck(cur_turn, cur_done, maxTurns) ==
    [turn |-> cur_turn, done |-> (cur_turn >= maxTurns \/ cur_done)]

\* what advance_turn returns
AdvanceTurnReturn(cur_turn, cur_done, maxTurns) ==
    [turn |-> cur_turn + 1, done |-> (cur_turn + 1 >= maxTurns \/ cur_done)]

\* route_fn: TRUE when the graph ends
RouteFn(cur_turn, cur_done, maxTurns) == cur_turn >= maxTurns \/ cur_done

\* advance_turn, and the conditional edge that follows it
AdvanceTurn ==
    /\ pc = "advance_turn"
    /\ LET r == AdvanceTurnReturn(turn, done, max_turns)
       IN  /\ turn' = r.turn
           /\ done' = r.done
           /\ pc' = IF RouteFn(r.turn, r.done, max_turns) THEN "END" ELSE "think_all"
    /\ UNCHANGED <<speak_call, call_vars, memory_vars, rest_vars>>
    /\ UNCHANGED <<agents, max_turns, conversations_per_round, current_round,
                   conversations_in_round, history, pending_obligation, thoughts,
                   last_speaker, next_speaker, new_utterance, phase, decision,
                   agent_round>>

Next ==
    \/ ThinkAll
    \/ GameMasterDecide
    \/ Speak
    \/ UpdateHistory
    \/ CheckRoundAdvance
    \/ AdvanceTurn

Spec == Init /\ [][Next]_vars

\* the graph executor runs the next node whenever there is one
FairSpec == Spec /\ WF_vars(Next)

-----------------------------------------------------------------------------
(* think_all step by step: the pool of think tasks.                        *)

\* a future of a submitted think task that has not completed
Running(t) == [turn |-> t, done |-> FALSE, arrival |-> 0, entry |-> ThinkAllFallback]

\* think_all up to executor.submit: in round 1 or without agents it returns
\* at once, else one think task per agent is submitted
ThinkAllSubmit ==
    /\ pc = "think_all"
    /\ IF current_round = 1 \/ agents = <<>>
       THEN /\ thoughts' = <<>>
            /\ pc' = "game_master_decide"
            /\ UNCHANGED futures
       ELSE /\ futures' = [a \in Range(agents) |-> Running(turn)]
            /\ pc' = "as_completed"
            /\ UNCHANGED thoughts
    /\ UNCHANGED <<speak_call, call_vars, memory_vars, file_vars, knowledge_vars>>
    /\ UNCHANGED <<agents, max_turns, conversations_per_round, turn, current_round,
                   conversations_in_round, history, pending_obligation,
                   last_speaker, next_speaker, new_utterance, done, phase,
                   decision, agent_round>>

\* a worker thread completes one think task: Agent.think has updated the
\* agent's memory and returns its result or its exception (entry is what
\* think_all stores for it)
ThinkTask ==
    /\ \E a \in DOMAIN futures :
          /\ ~futures[a].done
          /\ \E think_call \in LoopThinkCalls :
                futures' = [futures EXCEPT ![a] =
                               [turn |-> futures[a].turn,
                                done |-> TRUE,
                                arrival |-> 1 + Cardinality({b \in DOMAIN futures :
                                                                futures[b].done}),
                                entry |-> ThinkAllEntry(think_call)]]
          /\ agent_memory' = ThinkersMemory(agent_memory, {a}, history, turn)
    /\ UNCHANGED <<loop_vars, call_vars, suspicions, facts, file_vars, knowledge_vars>>

\* a pool that is left as soon as one task has completed
PoolAnyDone(futs) == \E a \in DOMAIN futs : futs[a].done

\* as_completed has yielded every future and the with block of the
\* executor has ended: every task has completed or failed
PoolDrained(futs) == \A a \in DOMAIN futs : futs[a].done

\* think_all from as_completed on: the entries of the completed futures,
\* in the order of completion
ThinkAllCollect ==
    /\ pc = "as_completed"
    /\ PoolDrained(futures)
    /\ LET completed == {a \in DOMAIN futures : futures[a].done}
           nth(i) == CHOOSE a \in completed : futures[a].arrival = i
       IN  thoughts' = [i \in 1..Cardinality(completed) |->
                           [name |-> nth(i),
                            action |-> futures[nth(i)].entry.action,
                            importance |-> futures[nth(i)].entry.importance]]
    /\ pc' = "game_master_decide"
    /\ UNCHANGED <<speak_call, call_vars, memory_vars, rest_vars>>
    /\ UNCHANGED <<agents, max_turns, conversations_per_round, turn, current_round,
                   conversations_in_round, history, pending_obligation,
                   last_speaker, next_speaker, new_utterance, done, phase,
                   decision, agent_round>>

NextPool ==
    \/ ThinkAllSubmit
    \/ ThinkTask
    \/ ThinkAllCollect
    \/ GameMasterDecide
    \/ Speak
    \/ UpdateHistory
    \/ CheckRoundAdvance
    \/ AdvanceTurn

PoolSpec == Init /\ [][NextPool]_vars

-----------------------------------------------------------------------------
(* One discussion turn from every state the second discussion turn can     *)
(* start in, for the rosters of Roster and the full sets of texts and think *)
(* results.                                                                *)

\* the runner's initial history
InitialHistory ==
    << [turn |-> 0, speaker |-> GameMasterName, text |-> murder_announcement] >>

\* the history when round 1 ends: the turns of round 1 (game_master_decide,
\* speak, update_history, check_round_advance) run from turn t on, for a
\* non-empty roster
RECURSIVE IntroductionHistory(_, _, _)
IntroductionHistory(agent_names, hist, t) ==
    LET u == [turn |-> t, speaker |-> IntroductionSpeaker(agent_names, hist),
              text |-> TxtPlain]
        appended == HistoryReducer(hist, <<u>>)
        r == CheckRoundAdvanceReturn(1, t, appended, <<u>>, agent_names, 1,
                                     FALSE, "introduction")
    IN  IF r.current_round = 1
        THEN IntroductionHistory(agent_names, appended, t + 1)
        ELSE appended

\* the state handed to app.invoke for a roster of one to three characters,
\* under build_graph's default turn budget
InitIntro ==
    /\ \E n \in 1..Len(Roster) : agents = SubSeq(Roster, 1, n)
    /\ conversations_per_round \in 1..MaxConversationsPerRound
    /\ max_turns = DefaultMaxTurns
    /\ pc = "think_all"
    /\ turn = 0
    /\ current_round = 1
    /\ conversations_in_round = 0
    /\ history = InitialHistory
    /\ thoughts = <<>>
    /\ last_speaker = GameMasterName
    /\ pending_obligation = <<>>
    /\ next_speaker = None
    /\ new_utterance = <<>>
    /\ done = FALSE
    /\ phase = "introduction"
    /\ decision = <<>>
    /\ agent_round = [a \in Range(agents) |-> 1]
    /\ speak_call = <<>>
    /\ NoCalls
    /\ EmptyMemory
    /\ NoFiles
    /\ AgentsIn(current_round)

IntroSpec == InitIntro /\ [][Next]_vars

\* clue files: without a marker, with the marker and a first line of more
\* than ClueEndOffset characters, with the marker and a short line, with the
\* marker at the start of the file, and blank
TxtCluePlain ==
    <<"T","h","e"," ","k","n","i","f","e"," ","i","s"," ","g","o","n",
      "e",".">>
TxtClueLong ==
    <<"U+1F50D"," ","N","E","W"," ","C","L","U","E",":"," ","T","h","e"," ",
      "k","n","i","f","e"," ","f","r","o","m"," ","t","h","e"," ","k",
      "i","t","c","h","e","n"," ","w","a","s"," ","f","o","u","n","d",
      " ","i","n"," ","t","h","e"," ","l","i","b","r","a","r","y",".",
      "\n">>
TxtClueShort ==
    <<"U+1F50D"," ","N","E","W"," ","C","L","U","E",":"," ","T","h","e"," ",
      "k","n","i","f","e"," ","i","s"," ","g","o","n","e",".">>
TxtClueBare ==
    <<"N","E","W"," ","C","L","U","E",":"," ","T","h","e"," ","k","n",
      "i","f","e"," ","i","s"," ","g","o","n","e",".">>
TxtBlank == <<" ","\n">>
TxtClueFinal == <<"T","h","e"," ","w","i","l","l"," ","w","a","s"," ","c","h","a","n","g","e","d",".">>

\* the clue folders the runs draw from
ClueFileSets ==
    {NoClueFiles,
     <<TxtCluePlain, TxtCluePlain, TxtCluePlain, TxtCluePlain>>,
     <<TxtClueLong, TxtClueLong, TxtClueLong, TxtClueLong>>,
     <<TxtClueShort, TxtCluePlain, TxtBlank, TxtClueLong>>,
     <<TxtClueBare, TxtClueShort, TxtClueLong, TxtBlank>>,
     <<TxtCluePlain, TxtClueShort, TxtCluePlain, TxtClueLong, TxtClueFinal>>}

\* round descriptions, and the role folders the runs draw from: none,
\* every round of every character, and some rounds with a folder in
\* another case and a blank description
TxtRoundInfo ==
    <<"Y","o","u"," ","s","a","w"," ","B","o","b"," ","a","t"," ","n",
      "i","n","e",".","\n">>
DirAnnLee == <<"a","n","n","-","l","e","e">>
DirAnnLeeCapital == <<"A","n","n","-","L","e","e">>
DirBob == <<"b","o","b">>

RoundFileSets ==
    {NoRoundFiles,
     [key \in {DirAnnLee, DirBob} \X (1..5) |-> TxtRoundInfo],
     [key \in {<<DirAnnLeeCapital, 1>>, <<DirAnnLeeCapital, 3>>, <<DirBob, 2>>} |->
         IF key[1] = DirBob THEN TxtBlank ELSE TxtRoundInfo]}

\* the state handed to app.invoke by the runner, for any of the clue and
\* role folders, with one conversation per round and the runner's turn
\* budget
InitRound ==
    /\ \E n \in 1..Len(LoopRoster) : agents = SubSeq(LoopRoster, 1, n)
    /\ conversations_per_round = 1
    /\ max_turns = RunnerMaxTurns(conversations_per_round)
    /\ pc = "think_all"
    /\ turn = 0
    /\ current_round = 1
    /\ conversations_in_round = 0
    /\ history = InitialHistory
    /\ thoughts = <<>>
    /\ last_speaker = GameMasterName
    /\ pending_obligation = <<>>
    /\ next_speaker = None
    /\ new_utterance = <<>>
    /\ done = FALSE
    /\ phase = "introduction"
    /\ decision = <<>>
    /\ agent_round = [a \in Range(agents) |-> 1]
    /\ speak_call = <<>>
    /\ NoCalls
    /\ EmptyMemory
    /\ clue_files \in ClueFileSets
    /\ round_files \in RoundFileSets
    /\ AgentsIn(current_round)

RoundSpec == InitRound /\ [][Next]_vars

\* what the tie-break call of the first discussion turn did, when it was
\* made: it raised, or it answered with a constraint of its own
FirstTurnLlmOutcomes ==
    {[raised |-> TRUE],
     [raised |-> FALSE, next_speaker |-> Bob, response_constraint |-> <<"x">>,
      is_direct_address |-> FALSE]}

\* the states after think_all in the second turn of round 2: round 1 has
\* run, the first discussion turn chose its speaker (the tie-break call, if
\* made, did one of FirstTurnLlmOutcomes) and the speaker said any text, and
\* think_all has just returned any thoughts dict
InitTurn ==
    /\ \E n \in 1..Len(Roster) : agents = SubSeq(Roster, 1, n)
    /\ conversations_per_round \in 2..MaxConversationsPerRound
    /\ max_turns = RunnerMaxTurns(conversations_per_round)
    /\ pc = "game_master_decide"
    /\ LET intro == IntroductionHistory(agents, InitialHistory, 0)
           intro_last == intro[Len(intro)].speaker
               first_decisions ==
                   {DecideNextSpeaker(intro, intro_last, agents, first_thoughts, llm) :
                    first_thoughts \in ThoughtsDicts(agents, ThinkResults),
                    llm \in FirstTurnLlmOutcomes}
       IN  /\ turn = Len(intro)
           /\ \E d \in first_decisions, text \in Texts :
              LET u == [turn |-> Len(intro) - 1, speaker |-> d.next_speaker,
                        text |-> text]
              IN  /\ decision = <<d>>
                  /\ next_speaker = d.next_speaker
                  /\ pending_obligation = PendingOf(d, intro_last, intro)
                  /\ new_utterance = <<u>>
                  /\ last_speaker = d.next_speaker
                  /\ speak_call = << [speaker |-> d.next_speaker,
                                      response_constraint |->
                                          ConstraintFor(d.next_speaker,
                                                        PendingOf(d, intro_last, intro))] >>
                  /\ history = HistoryReducer(intro, <<u>>)
    /\ current_round = 2
    /\ conversations_in_round = 1
    /\ thoughts \in ThoughtsDicts(agents, ThinkResults)
    /\ done = FALSE
    /\ phase = "discussion"
    /\ agent_round = [a \in Range(agents) |-> 2]
    /\ NoCalls
    /\ suspicions = NoSuspicions
    /\ facts = <<>>
    /\ LET intro == IntroductionHistory(agents, InitialHistory, 0)
           fresh == [name \in Range(agents) |-> NewMemory]
       IN  agent_memory =
               ThinkersMemory(ThinkersMemory(fresh, Range(agents), intro,
                                             Len(intro) - 1),
                              Range(agents), history, turn)
    /\ NoFiles
    /\ AgentsIn(current_round)

\* the rest of the turn: every node after think_all
NextTurn ==
    \/ GameMasterDecide
    \/ Speak
    \/ UpdateHistory
    \/ CheckRoundAdvance
    \/ AdvanceTurn

TurnSpec == InitTurn /\ [][NextTurn]_vars

-----------------------------------------------------------------------------
(* run_discussion.py: the runner's whole run on small rosters and on the    *)
(* ones around 2 * conversations_per_round + 10 agents, with the runner's  *)
(* turn budget. The inputs are fixed: the think futures complete  *)
(* in submission order with the same intent, every tie-break call raises   *)
(* and every agent says the same text.                                     *)

\* a roster of n agents: P1, P2, ...
BudgetRoster(n) == [i \in 1..n |-> <<"P">> \o NatText(i)]

\* the largest roster the budget is meant for
AgentsCovered(conv_per_round) == 2 * conv_per_round + 10

\* the roster sizes drawn: the small ones and the ones around the largest
\* covered
BudgetRosterSizes(conv_per_round) ==
    {1, 2, 3} \cup (AgentsCovered(conv_per_round) - 1)..(AgentsCovered(conv_per_round) + 2)

InitBudget ==
    /\ conversations_per_round \in 1..MaxConversationsPerRound
    /\ \E n \in BudgetRosterSizes(conversations_per_round) :
          agents = BudgetRoster(n)
    /\ max_turns = RunnerMaxTurns(conversations_per_round)
    /\ pc = "think_all"
    /\ turn = 0
    /\ current_round = 1
    /\ conversations_in_round = 0
    /\ history = InitialHistory
    /\ thoughts = <<>>
    /\ last_speaker = GameMasterName
    /\ pending_obligation = <<>>
    /\ next_speaker = None
    /\ new_utterance = <<>>
    /\ done = FALSE
    /\ phase = "introduction"
    /\ decision = <<>>
    /\ agent_round = [a \in Range(agents) |-> 1]
    /\ speak_call = <<>>
    /\ NoCalls
    /\ EmptyMemory
    /\ NoFiles
    /\ AgentsIn(current_round)

\* think_all, the futures completing in the order they were submitted
ThinkAllInOrder == ThinkAllDrawing({agents}, LoopThinkCalls)

\* game_master_decide, every tie-break call raising
GameMasterDecideFailing == GameMasterDecideDrawing({[raised |-> TRUE]})

\* speak, the agent saying the plain text
SpeakPlain == SpeakDrawing({TxtPlain})

NextBudget ==
    \/ ThinkAllInOrder
    \/ GameMasterDecideFailing
    \/ SpeakPlain
    \/ UpdateHistory
    \/ CheckRoundAdvance
    \/ AdvanceTurn

\* the executor leaves the node it is at: every node is enabled at its pc
\* and every step of a node changes pc
Nodes ==
    {"think_all", "game_master_decide", "speak", "update_history",
     "check_round_advance", "advance_turn"}
ExecutorStep == pc \in Nodes /\ pc' \in (Nodes \cup {"END", "raised"}) \ {pc}

\* the graph executor runs the next node whenever there is one
BudgetSpec == InitBudget /\ [][NextBudget]_vars /\ WF_pc(ExecutorStep)

-----------------------------------------------------------------------------
(* run_discussion.py: the runner's whole run under the step limit of       *)
(* app.invoke(init, {"recursion_limit": 1000}), for numbers of             *)
(* conversations per round the runner accepts. The inputs are fixed as in  *)
(* BudgetSpec. pc = "raised" stands for the GraphRecursionError that ends  *)
(* the run.                                                                *)

\* the step limit handed to app.invoke
RecursionLimit == 1000

\* the nodes build_graph chains in one turn
NodesPerTurn == 6

\* the default of _select_conversations_per_round, and a large answer
DefaultConversations == 20
LargeConversations == 42

\* _select_conversations_per_round: the number returned for an answer, the
\* empty sequence when the answer is refused and the question asked again
SelectConversationsPerRound(answer) ==
    IF answer = <<>> THEN <<DefaultConversations>>
    ELSE IF answer[1] > 0 THEN answer ELSE <<>>

\* the answers drawn: none, and some integers
ConversationAnswers == {<<>>, <<0>>, <<1>>, <<LargeConversations>>}

\* the nodes executed so far: six per turn, turn being advanced by the
\* sixth
NodeIndex(node) ==
    CASE node = "game_master_decide" -> 1
      [] node = "speak" -> 2
      [] node = "update_history" -> 3
      [] node = "check_round_advance" -> 4
      [] node = "advance_turn" -> 5
      [] OTHER -> 0
StepsDone == NodesPerTurn * turn + NodeIndex(pc)

InitLimit ==
    /\ \E answer \in ConversationAnswers :
          /\ SelectConversationsPerRound(answer) /= <<>>
          /\ conversations_per_round = SelectConversationsPerRound(answer)[1]
    /\ \E n \in 1..Len(LoopRoster) : agents = SubSeq(LoopRoster, 1, n)
    /\ max_turns = RunnerMaxTurns(conversations_per_round)
    /\ pc = "think_all"
    /\ turn = 0
    /\ current_round = 1
    /\ conversations_in_round = 0
    /\ history = InitialHistory
    /\ thoughts = <<>>
    /\ last_speaker = GameMasterName
    /\ pending_obligation = <<>>
    /\ next_speaker = None
    /\ new_utterance = <<>>
    /\ done = FALSE
    /\ phase = "introduction"
    /\ decision = <<>>
    /\ agent_round = [a \in Range(agents) |-> 1]
    /\ speak_call = <<>>
    /\ NoCalls
    /\ EmptyMemory
    /\ NoFiles
    /\ AgentsIn(current_round)

\* the executor runs a node while the step limit allows one more
WithinLimit == pc \in Nodes /\ StepsDone < RecursionLimit

\* the executor has run recursion_limit nodes and the graph has not ended
GraphRecursionError ==
    /\ pc \in Nodes
    /\ StepsDone >= RecursionLimit
    /\ pc' = "raised"
    /\ UNCHANGED <<agents, max_turns, conversations_per_round, turn, current_round,
                   conversations_in_round, history, pending_obligation, thoughts,
                   last_speaker, next_speaker, new_utterance, done, phase,
                   decision, agent_round>>
    /\ UNCHANGED <<speak_call, call_vars, memory_vars, rest_vars>>

NextLimit ==
    \/ WithinLimit /\ ThinkAllInOrder
    \/ WithinLimit /\ GameMasterDecideFailing
    \/ WithinLimit /\ SpeakPlain
    \/ WithinLimit /\ UpdateHistory
    \/ WithinLimit /\ CheckRoundAdvance
    \/ WithinLimit /\ AdvanceTurn
    \/ GraphRecursionError

LimitSpec == InitLimit /\ [][NextLimit]_vars

-----------------------------------------------------------------------------
(* The graph invoked on a state of a round >= 2 in which no speaker can be *)
(* selected: build_graph over an empty agent set, or a game master that    *)
(* has just named somebody who is not among the agents.                    *)

InitSilent ==
    /\ conversations_per_round \in 1..MaxConversationsPerRound
    /\ max_turns \in {DefaultMaxTurns, RunnerMaxTurns(conversations_per_round)}
    /\ \/ /\ pc = "think_all"
          /\ agents = <<>>
          /\ next_speaker = None
       \/ /\ pc = "speak"
          /\ agents \in {<<>>, <<AnnLee>>}
          /\ next_speaker \in {None, Bob}
    /\ turn = 0
    /\ current_round \in 2..(MaxRounds - 1)
    /\ conversations_in_round \in 0..(conversations_per_round - 1)
    /\ history = InitialHistory
    /\ thoughts = <<>>
    /\ last_speaker = GameMasterName
    /\ pending_obligation = <<>>
    /\ new_utterance = <<>>
    /\ done = FALSE
    /\ phase = GetPhaseForRound(current_round)
    /\ decision = <<>>
    /\ agent_round = [a \in Range(agents) |-> current_round]
    /\ speak_call = <<>>
    /\ NoCalls
    /\ EmptyMemory
    /\ NoFiles
    /\ AgentsIn(current_round)

SilentSpec == InitSilent /\ [][Next]_vars

-----------------------------------------------------------------------------
(* The functions called on their own, once per behaviour: Agent.think,     *)
(* Agent.speak, Agent.accuse, think_all and decide_next_speaker, on the    *)
(* behaviours of the capability they call. The graph is not running.       *)

InitCall ==
    /\ pc = "END"
    /\ agents = <<>>
    /\ conversations_per_round = MaxConversationsPerRound
    /\ max_turns = RunnerMaxTurns(conversations_per_round)
    /\ turn = 0
    /\ current_round = 1
    /\ conversations_in_round = 0
    /\ history = InitialHistory
    /\ thoughts = <<>>
    /\ last_speaker = GameMasterName
    /\ next_speaker = None
    /\ pending_obligation = <<>>
    /\ new_utterance = <<>>
    /\ done = FALSE
    /\ phase = "introduction"
    /\ decision = <<>>
    /\ agent_round = [a \in {} |-> 1]
    /\ speak_call = <<>>
    /\ NoCalls
    /\ EmptyMemory
    /\ NoFiles
    /\ AgentsIn(current_round)

\* the values llm_think, llm_speak and llm_accuse return in the calls drawn
ThinkValues == {[action |-> "speak", importance |-> 9]}
SpeakValues == {TxtPlain, <<>>}
AccuseValues == {Bob, <<"z">>}

\* agent.think(state)
CallThink ==
    /\ call = <<>>
    /\ \E memory_raises \in BOOLEAN, behaviour \in Behaviours(ThinkValues) :
          /\ call' = << [op |-> "think", memory_raises |-> memory_raises,
                         behaviour |-> behaviour] >>
          /\ returned' = << AgentThink(memory_raises, behaviour) >>
    /\ UNCHANGED <<loop_vars, memory_vars, rest_vars>>

\* agent.speak(state)
CallSpeak ==
    /\ call = <<>>
    /\ \E name \in {AnnLee, Bob}, behaviour \in Behaviours(SpeakValues) :
          /\ call' = << [op |-> "speak", name |-> name, behaviour |-> behaviour] >>
          /\ returned' = << AgentSpeak(name, behaviour) >>
    /\ UNCHANGED <<loop_vars, memory_vars, rest_vars>>

\* names llm_accuse can answer with: the accuser's own, other agents' in
\* other case or with a title, the empty and an unknown one
AccuseAnswers ==
    {AnnLee, Bob, Lower(Cy), <<"M","r"," ">> \o Cy, <<>>, <<"z">>}

\* the behaviours of llm_accuse drawn: all those over AccuseValues, and those
\* that answer one of AccuseAnswers at once or after a rate limit
AccuseBehaviours ==
    Behaviours(AccuseValues) \cup
    {BehaviourOf(prefix, Ok(answer)) :
        prefix \in {<<>>, <<Raise(ErrRateLimit)>>}, answer \in AccuseAnswers}

\* agent.accuse(state, all_agents), the agent being any of all_agents
CallAccuse ==
    /\ call = <<>>
    /\ \E n \in 1..Len(Roster), memory_raises \in BOOLEAN,
          behaviour \in AccuseBehaviours :
       \E name \in Range(SubSeq(Roster, 1, n)) :
          /\ call' = << [op |-> "accuse", name |-> name,
                         all_agents |-> SubSeq(Roster, 1, n),
                         memory_raises |-> memory_raises,
                         behaviour |-> behaviour] >>
          /\ returned' = << AgentAccuse(name, SubSeq(Roster, 1, n),
                                        memory_raises, behaviour) >>
    /\ UNCHANGED <<loop_vars, memory_vars, rest_vars>>

\* the think tasks drawn for think_all: update_memory raising, llm_think
\* answering at once or after a rate limit, failing otherwise, rate limited
\* for ever, and answering with an importance out of bounds (12; 429 and
\* then -1)
ThinkCalls ==
    {[memory_raises |-> TRUE,
      behaviour |-> BehaviourOf(<<>>, Ok([action |-> "speak", importance |-> 9]))],
     [memory_raises |-> FALSE,
      behaviour |-> BehaviourOf(<<>>, Ok([action |-> "speak", importance |-> 9]))],
     [memory_raises |-> FALSE,
      behaviour |-> BehaviourOf(<<Raise(Err429)>>, Ok([action |-> "listen", importance |-> 9]))],
     [memory_raises |-> FALSE,
      behaviour |-> BehaviourOf(<<Raise(ErrTimeout)>>, Ok([action |-> "speak", importance |-> 9]))],
     [memory_raises |-> FALSE,
      behaviour |-> BehaviourOf(<<>>, Raise(ErrRateLimit))],
     [memory_raises |-> FALSE,
      behaviour |-> BehaviourOf(<<>>, Ok([action |-> "speak", importance |-> 12]))],
     [memory_raises |-> FALSE,
      behaviour |-> BehaviourOf(<<Ok([action |-> "speak", importance |-> 429])>>,
                                Ok([action |-> "listen", importance |-> -1]))]}

\* think_all(state, agents)
CallThinkAll ==
    /\ call = <<>>
    /\ \E cur_round \in 1..2, n \in 0..Len(Roster) :
       \E order \in CompletionOrders(SubSeq(Roster, 1, n)),
          think_calls \in [Range(SubSeq(Roster, 1, n)) -> ThinkCalls] :
          /\ call' = << [op |-> "think_all", current_round |-> cur_round,
                         agents |-> SubSeq(Roster, 1, n), order |-> order,
                         think_calls |-> think_calls] >>
          /\ returned' = << ThinkAllReturn(cur_round, SubSeq(Roster, 1, n),
                                           order, think_calls) >>
    /\ UNCHANGED <<loop_vars, memory_vars, rest_vars>>

\* self.llm_decide.invoke(msgs) in the try block of decide_next_speaker: a
\* single invocation, the first of the behaviour
LlmDecide(behaviour) ==
    IF behaviour[1].kind = "ok" THEN behaviour[1].value ELSE [raised |-> TRUE]

\* the answers of llm_decide and its behaviours in the calls drawn
DecideAnswers ==
    [raised : {FALSE}, next_speaker : {AnnLee, Bob},
     response_constraint : {None}, is_direct_address : {FALSE}]

DecideBehaviours ==
    {BehaviourOf(prefix, Ok(answer)) :
        prefix \in {<<>>, <<Raise(Err429)>>, <<Raise(ErrTimeout)>>},
        answer \in DecideAnswers}
    \cup {BehaviourOf(<<>>, Raise(ErrRateLimit))}

\* game_master.decide_next_speaker(state, thoughts) for the full roster
CallDecide ==
    /\ call = <<>>
    /\ \E lastSpeaker \in {GameMasterName, Cy}, text \in {TxtPlain, TxtBobWhat},
          thts \in ThoughtsDicts(Roster, {[action |-> "speak", importance |-> 9],
                                          [action |-> "listen", importance |-> 3]}),
          behaviour \in DecideBehaviours :
          LET hist == HistoryReducer(InitialHistory,
                          << [turn |-> 0, speaker |-> lastSpeaker, text |-> text] >>)
              sel == Selection(hist, lastSpeaker, Roster, thts)
          IN  /\ call' = << [op |-> "decide_next_speaker", history |-> hist,
                             last_speaker |-> lastSpeaker, agent_names |-> Roster,
                             thoughts |-> thts, behaviour |-> behaviour] >>
              /\ returned' = << [raised |-> FALSE,
                                 value |-> DecideNextSpeaker(hist, lastSpeaker, Roster,
                                               thts, LlmDecide(behaviour)),
                                 attempts |-> IF InvokesLlm(sel) THEN 1 ELSE 0] >>
    /\ UNCHANGED <<loop_vars, memory_vars, rest_vars>>

NextCall ==
    \/ CallThink
    \/ CallSpeak
    \/ CallAccuse
    \/ CallThinkAll
    \/ CallDecide

CallSpec == InitCall /\ [][NextCall]_vars

-----------------------------------------------------------------------------
(* memory/agent_memory.py: an agent's KnowledgeGraph and LongTermMemory,   *)
(* each updated on its own from the empty memory. call holds the last      *)
(* call made.                                                              *)

\* the number of update_suspicion calls of a behaviour
MaxUpdates == 6

Targets == {Bob, Cy}
Deltas == {-100, -1, 1, 100}
Reasons == {<<"r">>, <<"s">>}

\* the number of reasons stored for the targets of S: every call adds one
RECURSIVE UpdatesIn(_, _)
UpdatesIn(susp, S) ==
    IF S = {} THEN 0
    ELSE LET t == CHOOSE x \in S : TRUE
         IN  Len(susp[t].reasons) + UpdatesIn(susp, S \ {t})

\* knowledge_graph.update_suspicion(target, delta, reason)
UpdateSuspicion ==
    /\ UpdatesIn(suspicions, DOMAIN suspicions) < MaxUpdates
    /\ \E target \in Targets, delta \in Deltas, reason \in Reasons :
          /\ call' = << [op |-> "update_suspicion", target |-> target,
                         delta |-> delta, reason |-> reason] >>
          /\ suspicions' = UpdateSuspicionReturn(suspicions, target, delta, reason)
    /\ UNCHANGED <<loop_vars, returned, facts, agent_memory, rest_vars>>

SuspicionSpec == InitCall /\ [][UpdateSuspicion]_vars

\* fact texts: two that differ in case only, and two others
FactTexts ==
    {<<"F","a","c","t">>, <<"f","a","c","t">>, <<"a">>, <<"b">>}

\* a fact list that takes every text
AddFactAlways(fs, fact) == Append(fs, fact)

\* LongTermMemory.add_fact: the facts afterwards
AddFactReturn(fs, fact) ==
    IF fact \notin Range(fs) THEN Append(fs, fact) ELSE fs

\* long_term.add_fact(fact)
AddFact ==
    /\ \E fact \in FactTexts :
          /\ call' = << [op |-> "add_fact", fact |-> fact] >>
          /\ facts' = AddFactReturn(facts, fact)
    /\ UNCHANGED <<loop_vars, returned, suspicions, agent_memory, rest_vars>>

FactSpec == InitCall /\ [][AddFact]_vars

-----------------------------------------------------------------------------
(* memory/agent_memory.py: an agent's ShortTermMemory, updated turn after  *)
(* turn from a history that grows by one entry. call holds the window size *)
(* and the history of the last update, returned the buffer.                *)

\* the longest history drawn
MaxHistory == 11

\* the window size of every agent and two smaller ones
WindowSizes == {1, 3, AgentWindowSize}

\* short_term.update(history): the first update of an agent, on the empty
\* history, or the next one, on the history with one more entry
UpdateWindow ==
    /\ \E window_size \in WindowSizes, text \in LoopTexts :
       \E hist \in {IF call = <<>> THEN <<>>
                    ELSE Append(call[1].history,
                                [turn |-> Len(call[1].history),
                                 speaker |-> IF Len(call[1].history) % 2 = 0
                                             THEN AnnLee ELSE Bob,
                                 text |-> text])} :
          /\ call /= <<>> => window_size = call[1].window_size
          /\ Len(hist) <= MaxHistory
          /\ call' = << [op |-> "short_term_update", window_size |-> window_size,
                         history |-> hist] >>
          /\ returned' = << [raised |-> FALSE,
                             value |-> ShortTermUpdate(window_size, hist)] >>
    /\ UNCHANGED <<loop_vars, memory_vars, rest_vars>>

WindowSpec == InitCall /\ [][UpdateWindow]_vars

-----------------------------------------------------------------------------
(* memory/agent_memory.py: process_new_message called on its own, message   *)
(* after message, on the memory of one observing agent. call holds the     *)
(* last call made, with the memory it was made on.                          *)

\* the number of messages an observer processes
MaxMessages == 2

TxtYouKilled == <<"B","o","b"," ","y","o","u"," ","k","i","l","l","e","d"," ","h","e","r">>
TxtSuspectCy == <<"I"," ","s","u","s","p","e","c","t"," ","C","y">>
TxtMurdererBob == <<"T","h","e"," ","m","u","r","d","e","r","e","r"," ","i","s"," ","B","o","b">>
TxtAlibi == <<"I"," ","w","a","s"," ","i","n"," ","t","h","e"," ","b","a","r","n">>
TxtSawBob == <<"I"," ","s","a","w"," ","B","o","b">>
HeardTexts == {TxtYouKilled, TxtSuspectCy, TxtMurdererBob, TxtAlibi, TxtSawBob, TxtPlain}
Observers == {AnnLee, Cy}

InitMessage ==
    /\ pc = "END"
    /\ agents \in {<<o>> : o \in Observers}
    /\ conversations_per_round = MaxConversationsPerRound
    /\ max_turns = RunnerMaxTurns(conversations_per_round)
    /\ turn = 0
    /\ current_round = 1
    /\ conversations_in_round = 0
    /\ history = InitialHistory
    /\ thoughts = <<>>
    /\ last_speaker = GameMasterName
    /\ next_speaker = None
    /\ pending_obligation = <<>>
    /\ new_utterance = <<>>
    /\ done = FALSE
    /\ phase = "introduction"
    /\ decision = <<>>
    /\ agent_round = [a \in Range(agents) |-> 1]
    /\ speak_call = <<>>
    /\ NoCalls
    /\ EmptyMemory
    /\ NoFiles
    /\ AgentsIn(current_round)

\* agents[observer].memory.process_new_message(message, turn)
ProcessMessage ==
    /\ IF call = <<>> THEN TRUE ELSE call[1].count < MaxMessages
    /\ \E observer \in DOMAIN agent_memory, speaker \in Range(Roster), text \in HeardTexts, turn_heard \in {1, 2} :
          LET message == [turn |-> turn_heard, speaker |-> speaker, text |-> text]
          IN  /\ call' = << [op |-> "process_new_message", observer |-> observer,
                             message |-> message, turn |-> turn_heard,
                             before |-> agent_memory[observer],
                             count |-> IF call = <<>> THEN 1 ELSE call[1].count + 1] >>
              /\ agent_memory' = [agent_memory EXCEPT ![observer] =
                                     ProcessNewMessage(@, message, turn_heard)]
    /\ UNCHANGED <<loop_vars, returned, suspicions, facts, rest_vars>>

MessageSpec == InitMessage /\ [][ProcessMessage]_vars

-----------------------------------------------------------------------------
(* memory/agent_memory.py: the memory layers rendered for a prompt. A text *)
(* is the sequence of its lines; a line is a tuple whose first item is the *)
(* fixed part it starts with.                                              *)

PlaceholderShortTerm == << <<"(no recent conversation)">> >>
PlaceholderLongTerm == << <<"(no long-term memories yet)">> >>
PlaceholderKnowledgeGraph == << <<"(no knowledge graph data yet)">> >>
PlaceholderMemory == << <<"(memory layers empty)">> >>

HeaderFullLog == "=== FULL CONVERSATION LOG ==="
HeaderRecent == "=== RECENT CONTEXT (Last {window_size} messages) ==="
HeaderLongTerm == "=== LONG-TERM MEMORY ==="
HeaderKnowledgeGraph == "=== KNOWLEDGE GRAPH ==="

\* "\n\n".join(sections): a blank line between two sections
RECURSIVE JoinSections(_)
JoinSections(sections) ==
    IF sections = <<>> THEN <<>>
    ELSE IF Len(sections) = 1 THEN sections[1]
    ELSE sections[1] \o << <<"">> >> \o JoinSections(Tail(sections))

\* the section appended when its condition holds
SectionIf(condition, section) == IF condition THEN << section >> ELSE <<>>

\* ShortTermMemory.format_for_prompt
ShortTermFormat(buffer) ==
    IF buffer = <<>> THEN PlaceholderShortTerm
    ELSE [i \in 1..Len(buffer) |-> <<"  ", buffer[i].speaker, buffer[i].text>>]

\* LongTermMemory.format_for_prompt
LongTermFormat(lt) ==
    LET facts_shown == PyLastSlice(lt.facts, 10)
        contradictions_shown == PyLastSlice(lt.contradictions, 5)
        sections ==
            SectionIf(lt.facts /= <<>>,
                      << <<"IMPORTANT FACTS:">> >> \o
                      [i \in 1..Len(facts_shown) |-> <<"  * ", facts_shown[i]>>])
            \o SectionIf(lt.alibis /= <<>>,
                      << <<"KNOWN ALIBIS:">> >> \o
                      [i \in 1..Len(lt.alibis) |-> <<"  * ", lt.alibis[i]>>])
            \o SectionIf(lt.contradictions /= <<>>,
                      << <<"CONTRADICTIONS DETECTED:">> >> \o
                      [i \in 1..Len(contradictions_shown) |->
                          <<"  ! ", contradictions_shown[i]>>])
            \o SectionIf(lt.clues_received /= <<>>,
                      << <<"CLUES FROM INVESTIGATION:">> >> \o
                      [i \in 1..Len(lt.clues_received) |-> <<"  ? ", lt.clues_received[i]>>])
    IN  IF sections /= <<>> THEN JoinSections(sections) ELSE PlaceholderLongTerm

\* sorted(suspicions.items(), key=level, reverse=True): stable
RECURSIVE InsertByLevel(_, _)
InsertByLevel(x, sorted) ==
    IF sorted = <<>> THEN <<x>>
    ELSE IF Head(sorted).level >= x.level
         THEN <<Head(sorted)>> \o InsertByLevel(x, Tail(sorted))
         ELSE <<x>> \o sorted

RECURSIVE SortedByLevel(_)
SortedByLevel(items) ==
    IF items = <<>> THEN <<>>
    ELSE InsertByLevel(items[Len(items)], SortedByLevel(SubSeq(items, 1, Len(items) - 1)))

\* KnowledgeGraph.get_most_suspicious(n); susp is suspicions.items()
GetMostSuspicious(susp, n) ==
    SubSeq(SortedByLevel(susp), 1, Min(n, Len(susp)))

\* KnowledgeGraph.format_for_prompt
KnowledgeGraphFormat(kg) ==
    LET top_suspects == GetMostSuspicious(kg.suspicions, 3)
        Positive(x) == x.level > 0
        positive == SelectSeq(top_suspects, Positive)
        suspect_lines ==
            [i \in 1..Len(positive) |-> <<"  [level] ", positive[i].target, positive[i].level>>]
        evidence_shown == PyLastSlice(kg.evidence, 5)
        sections ==
            SectionIf(kg.people /= <<>>,
                      << <<"PEOPLE & CONNECTIONS:">> >> \o
                      [i \in 1..Len(kg.people) |-> <<"  ", kg.people[i]>>])
            \o SectionIf(top_suspects /= <<>> /\ positive /= <<>> /\ suspect_lines /= <<>>,
                      << <<"SUSPICION LEVELS:">> >> \o suspect_lines)
            \o SectionIf(kg.evidence /= <<>>,
                      << <<"KEY EVIDENCE:">> >> \o
                      [i \in 1..Len(evidence_shown) |-> <<"  * ", evidence_shown[i]>>])
    IN  IF sections /= <<>> THEN JoinSections(sections) ELSE PlaceholderKnowledgeGraph

\* every layer under its header, whatever it renders
FormatAllWithEveryHeader(memory, include_full_history, full_history) ==
    JoinSections(<< << <<HeaderRecent>> >> \o ShortTermFormat(memory.buffer),
                    << <<HeaderLongTerm>> >> \o LongTermFormat(memory.long_term),
                    << <<HeaderKnowledgeGraph>> >> \o
                        KnowledgeGraphFormat(memory.knowledge_graph) >>)

\* AgentMemory.format_all_for_prompt
FormatAllForPrompt(memory, include_full_history, full_history) ==
    LET recent == ShortTermFormat(memory.buffer)
        long_term == LongTermFormat(memory.long_term)
        kg == KnowledgeGraphFormat(memory.knowledge_graph)
        sections ==
            SectionIf(include_full_history /\ full_history /= <<>>,
                      << <<HeaderFullLog>>, <<"(See conversation history above)">> >>)
            \o SectionIf(recent /= <<>> /\ recent /= PlaceholderShortTerm,
                         << <<HeaderRecent>> >> \o recent)
            \o SectionIf(long_term /= <<>> /\ long_term /= PlaceholderLongTerm,
                         << <<HeaderLongTerm>> >> \o long_term)
            \o SectionIf(kg /= <<>> /\ kg /= PlaceholderKnowledgeGraph,
                         << <<HeaderKnowledgeGraph>> >> \o kg)
    IN  IF sections /= <<>> THEN JoinSections(sections) ELSE PlaceholderMemory

\* the memories drawn: every list empty or with one item, and a suspicion
\* of every sign
OneUtterance == << [turn |-> 0, speaker |-> AnnLee, text |-> TxtPlain] >>

SuspicionItems ==
    {<<>>,
     << [target |-> Bob, level |-> 0, reasons |-> <<>>] >>,
     << [target |-> Bob, level |-> -1, reasons |-> << <<"r">> >>] >>,
     << [target |-> Bob, level |-> 2, reasons |-> << <<"r">> >>] >>,
     << [target |-> Bob, level |-> -1, reasons |-> << <<"r">> >>],
        [target |-> Cy, level |-> 1, reasons |-> << <<"s">> >>] >>}

Memories ==
    [buffer : {<<>>, OneUtterance},
     long_term : [facts : {<<>>, << <<"a">> >>},
                  alibis : {<<>>, << <<Bob, <<"b">> >> >>},
                  contradictions : {<<>>},
                  clues_received : {<<>>, << <<"c">> >>}],
     knowledge_graph : [people : {<<>>, <<Bob>>},
                        suspicions : SuspicionItems,
                        evidence : {<<>>, << <<"e">> >>}]]

\* memory.format_all_for_prompt(include_full_history, full_history)
CallFormatAll ==
    /\ call = <<>>
    /\ \E memory \in Memories, include_full_history \in BOOLEAN,
          full_history \in {<<>>, OneUtterance} :
          /\ call' = << [op |-> "format_all_for_prompt", memory |-> memory,
                         include_full_history |-> include_full_history,
                         full_history |-> full_history] >>
          /\ returned' = << [raised |-> FALSE,
                             value |-> FormatAllForPrompt(memory, include_full_history,
                                                          full_history)] >>
    /\ UNCHANGED <<loop_vars, memory_vars, rest_vars>>

PromptSpec == InitCall /\ [][CallFormatAll]_vars

-----------------------------------------------------------------------------
(* Properties of the turn loop (Spec, FairSpec).                           *)

\* the number of history entries spoken by a
EntriesOf(a, hist) == Cardinality({i \in 1..Len(hist) : hist[i].speaker = a})

\* C1: history changes only in update_history, which appends nothing or one
\* utterance and keeps every earlier entry in place; so after t completed
\* turns history holds at most t entries besides the announcement (one more
\* once update_history has run in the current turn)
C1_AtMostOneUtterancePerTurn ==
    /\ [](Len(history) <= 1 + turn +
             (IF pc \in {"check_round_advance", "advance_turn"} THEN 1 ELSE 0))
    /\ [][/\ Len(history') \in {Len(history), Len(history) + 1}
          /\ SubSeq(history', 1, Len(history)) = history
          /\ (history' /= history => pc = "update_history")]_vars

\* C1 witness: update_history has just appended an utterance in a later turn
C1_Witness ==
    /\ pc = "check_round_advance"
    /\ turn >= 2
    /\ new_utterance /= <<>>
    /\ history[Len(history)] = new_utterance[1]

\* C2: current_round stays in 1..max_rounds and never decreases
C2_RoundMonotoneBounded ==
    /\ [](current_round \in 1..MaxRounds)
    /\ [][current_round' >= current_round]_vars

\* C2 witness: the round has advanced up to round 5 with two conversations
\* per round
C2_Witness ==
    /\ current_round = 5
    /\ conversations_per_round = 2
    /\ Len(agents) = 2

\* C3 (as claimed): right after the check that moves the run to round 2,
\* the phase is discussion and every agent is the speaker of exactly one
\* history entry
C3_AllIntroducedWhenRound2 ==
    (pc = "advance_turn" /\ current_round = 2 /\ conversations_in_round = 0)
        => /\ phase = "discussion"
           /\ \A a \in Range(agents) : EntriesOf(a, history) = 1

\* C8: check_round_advance sets done and the accusation phase exactly when
\* the round is 5 and the incremented count reaches conversations_per_round
\* (or the round is 6 or more), and then keeps current_round; otherwise it
\* leaves done false and the phase is not accusation
C8_CompleteExactlyAfterRound5 ==
    [][pc = "check_round_advance" =>
         LET complete ==
                 \/ current_round >= 6
                 \/ /\ current_round = 5
                    /\ conversations_in_round + 1 >= conversations_per_round
         IN  /\ complete => /\ done' = TRUE
                            /\ phase' = "accusation"
                            /\ current_round' = current_round
             /\ ~complete => /\ done' = FALSE
                             /\ phase' /= "accusation"]_vars

\* C8 witness: the game was completed in round 5 at the threshold
C8_Witness ==
    /\ pc = "advance_turn"
    /\ done
    /\ phase = "accusation"
    /\ current_round = 5
    /\ conversations_in_round = conversations_per_round
    /\ conversations_per_round = 2

\* C9: the round and its conversation count change only in
\* check_round_advance; in rounds 2..5 the count goes up by one per turn
\* until the incremented count equals conversations_per_round, and in that
\* turn rounds 2..4 advance by one with the count reset to 0 and round 5
\* completes the game: each of these rounds lasts exactly
\* conversations_per_round turns
C9_RoundLastsConversationsPerRound ==
    [][/\ pc /= "check_round_advance" =>
            UNCHANGED <<current_round, conversations_in_round>>
       /\ (pc = "check_round_advance" /\ current_round \in 2..5) =>
            IF conversations_in_round + 1 = conversations_per_round
            THEN IF current_round <= 4
                 THEN /\ current_round' = current_round + 1
                      /\ conversations_in_round' = 0
                 ELSE done'
            ELSE /\ conversations_in_round + 1 < conversations_per_round
                 /\ conversations_in_round' = conversations_in_round + 1
                 /\ current_round' = current_round
                 /\ ~done']_vars

\* C9 witness: round 3 has just ended after two conversations
C9_Witness ==
    /\ pc = "advance_turn"
    /\ current_round = 4
    /\ conversations_in_round = 0
    /\ conversations_per_round = 2

\* C10: the run ends (the graph reaches END, or the run is aborted by an
\* exception); turn changes only in advance_turn, by exactly one; the loop
\* ends there exactly when the new turn has reached max_turns or done is
\* set; turn never exceeds max_turns and no node of a further turn runs
\* once done is set
C10_RunTerminates ==
    /\ <>(pc \in {"END", "raised"})
    /\ [](turn <= max_turns)
    /\ [](done => pc \in {"advance_turn", "END"})
    /\ [][IF pc = "advance_turn"
          THEN /\ turn' = turn + 1
               /\ (pc' = "END") <=> (turn' >= max_turns \/ done)
          ELSE turn' = turn]_vars

\* C10 witness: the turn budget, not the round logic, has ended a run
C10_Witness ==
    /\ pc = "END"
    /\ turn = max_turns
    /\ phase /= "accusation"

-----------------------------------------------------------------------------
(* Properties of the speaker selection (TurnSpec).  They are stated on the *)
(* state right after game_master_decide, where history, last_speaker and   *)
(* thoughts are still the ones the decision was taken from.                *)

\* game_master_decide has just decided a speaker in a round >= 2
JustDecided == pc = "speak" /\ current_round >= 2 /\ decision /= <<>>

LastTextLower == Lower(history[Len(history)].text)

\* the text holds "<name>," with the full or the first name of a
NamedWithComma(a, text_lower) ==
    \/ Contains(Lower(a) \o <<",">>, text_lower)
    \/ Contains(FirstWord(Lower(a)) \o <<",">>, text_lower)

\* positions in agents of the agents, other than the last speaker, that the
\* last text names with a comma / addresses with any of the patterns
NamedPositions ==
    {i \in 1..Len(agents) : /\ agents[i] /= last_speaker
                            /\ NamedWithComma(agents[i], LastTextLower)}

AddressedPositions ==
    {i \in 1..Len(agents) : /\ agents[i] /= last_speaker
                            /\ IsAddressed(agents[i], LastTextLower)}

Least(S) == CHOOSE i \in S : \A j \in S : i <= j

\* positions in thoughts of the available agents' entries, and of those of
\* the highest importance among them
AvailablePositions == {i \in 1..Len(thoughts) : thoughts[i].name /= last_speaker}

TopPositions ==
    {i \in AvailablePositions :
        \A j \in AvailablePositions : thoughts[j].importance <= thoughts[i].importance}

ImportanceOf(a) ==
    thoughts[CHOOSE i \in 1..Len(thoughts) : thoughts[i].name = a].importance

\* the decision selects a as a directly addressed speaker, and the pending
\* obligation is addressed to a
SelectedAsAddressed(a) ==
    /\ decision[1].next_speaker = a
    /\ next_speaker = a
    /\ decision[1].is_direct_address
    /\ Truthy(decision[1].response_constraint)
    /\ pending_obligation /= <<>>
    /\ pending_obligation[1].addressee = a

\* C4 (as claimed): if the last text holds "<name>," for an agent other
\* than the last speaker, the first such agent in agent_names order is
\* selected as directly addressed, with a pending obligation to it
C4_CommaNamedAgentSelected ==
    (JustDecided /\ NamedPositions /= {})
        => SelectedAsAddressed(agents[Least(NamedPositions)])

\* C4 (amended): if the last text holds any address pattern ("<name>,",
\* "<name>?", "ask <name>", "to <name>", ...) of an agent other than the
\* last speaker, the first agent in agent_names order with any such pattern
\* is selected as directly addressed, whatever the importances; an agent
\* named with "<name>," is therefore selected unless an agent before it in
\* agent_names order matches some pattern
C4_FirstAddressedAgentSelected ==
    JustDecided =>
        /\ NamedPositions \subseteq AddressedPositions
        /\ AddressedPositions /= {}
             => SelectedAsAddressed(agents[Least(AddressedPositions)])

\* C4 witness: Cy has said "Bob, ask Ann"; Ann Lee, before Bob in
\* agent_names, is selected although Bob has the higher importance
C4_Witness ==
    /\ JustDecided
    /\ history[Len(history)].text = TxtBobAskAnn
    /\ last_speaker = Cy
    /\ NamedPositions = {2}
    /\ next_speaker = AnnLee
    /\ decision[1].is_direct_address
    /\ ImportanceOf(Bob) > ImportanceOf(AnnLee)

\* C5 (as claimed): with two or more agents, the speaker decided in a round
\* >= 2 is never the last speaker
C5_NeverLastSpeaker ==
    (JustDecided /\ Len(agents) >= 2) => next_speaker /= last_speaker

\* C6 (as claimed): without a direct address and with two or more available
\* agents sharing the highest importance, the selected speaker is one of them
C6_SelectedWithinTiedSet ==
    (JustDecided /\ AddressedPositions = {} /\ Cardinality(TopPositions) >= 2)
        => next_speaker \in {thoughts[i].name : i \in TopPositions}

\* C7: without a direct address and with exactly one available agent of the
\* highest importance among the available ones, that agent is selected
\* with response_constraint None and is_direct_address false, and the
\* pending obligation is None
C7_UniqueTopSelectedWithoutObligation ==
    (JustDecided /\ AddressedPositions = {} /\ Cardinality(TopPositions) = 1)
        => /\ \A i \in TopPositions : /\ decision[1].next_speaker = thoughts[i].name
                                      /\ next_speaker = thoughts[i].name
           /\ decision[1].response_constraint = None
           /\ decision[1].is_direct_address = FALSE
           /\ pending_obligation = <<>>

\* C7 witness: the unique top agent among the available ones is selected
\* while the excluded last speaker has a strictly higher importance
C7_Witness ==
    /\ JustDecided
    /\ Len(agents) = 3
    /\ AddressedPositions = {}
    /\ Cardinality(TopPositions) = 1
    /\ \A i \in TopPositions : /\ next_speaker = thoughts[i].name
                               /\ ImportanceOf(last_speaker) > thoughts[i].importance

-----------------------------------------------------------------------------
(* Properties of a turn without a speaker (SilentSpec).                    *)

\* the turn is past game_master_decide and no agent was selected
NoSpeakerTurn ==
    /\ pc \in {"speak", "update_history", "check_round_advance", "advance_turn"}
    /\ (next_speaker = None \/ next_speaker \notin Range(agents))

\* what every step of a turn without a speaker leaves alone
NoSpeakerFrame ==
    /\ history' = history
    /\ last_speaker' = last_speaker
    /\ pc' /= "raised"
    /\ pc = "speak" => new_utterance' = <<>>
    /\ pc = "advance_turn" => turn' = turn + 1

-----------------------------------------------------------------------------
(* Properties of the functions called on their own (CallSpec).             *)

Called(op) == call /= <<>> /\ call[1].op = op

\* the intents thts holds for agent a
IntentsOf(thts, a) ==
    {[action |-> thts[i].action, importance |-> thts[i].importance] :
     i \in {j \in 1..Len(thts) : thts[j].name = a}}

\* a think task fails: in update_memory or in the capability call
ThinkFails(think_call) ==
    \/ think_call.memory_raises
    \/ RetryWithBackoff(LlmThinkInvoke(think_call.behaviour)).raised

\* C12: in a round >= 2 with a non-empty agent set think_all returns (it
\* does not raise, so that the turn goes on to game_master_decide) a
\* thoughts map with exactly one intent per agent and no other entry; an
\* agent whose think failed, in the capability call or in its memory update,
\* has an intent 'listen' of importance at most 3, and every other agent has
\* exactly the intent its own capability call returned.
C12_ThinkFailureIsolated ==
    (Called("think_all") /\ call[1].current_round >= 2 /\ call[1].agents /= <<>>) =>
        LET names == call[1].agents
            thts == returned[1].thoughts
        IN  /\ ~returned[1].raised
            /\ Len(thts) = Len(names)
            /\ \A i \in 1..Len(thts) : thts[i].name \in Range(names)
            /\ \A a \in Range(names) :
                  /\ Cardinality({i \in 1..Len(thts) : thts[i].name = a}) = 1
                  /\ \A intent \in IntentsOf(thts, a) :
                        IF ThinkFails(call[1].think_calls[a])
                        THEN intent.action = "listen" /\ intent.importance \in 0..3
                        ELSE intent = RetryWithBackoff(
                                          LlmThinkInvoke(call[1].think_calls[a].behaviour)).value

\* think_all has returned for three agents: Ann Lee's memory update raised,
\* Bob's capability call failed, Cy's answered after a rate limit
C12_Witness ==
    /\ Called("think_all")
    /\ call[1].current_round = 2
    /\ call[1].agents = Roster
    /\ call[1].think_calls[AnnLee].memory_raises
    /\ ~call[1].think_calls[Bob].memory_raises
    /\ call[1].think_calls[Bob].behaviour[1] = Raise(ErrTimeout)
    /\ call[1].think_calls[Cy].behaviour[1] = Raise(Err429)
    /\ ~returned[1].raised
    /\ IntentsOf(returned[1].thoughts, AnnLee) = {ThinkAllFallback}
    /\ IntentsOf(returned[1].thoughts, Bob) = {ThinkFallback}
    /\ IntentsOf(returned[1].thoughts, Cy) = {[action |-> "listen", importance |-> 9]}

\* C13: for the think tasks of a think_all call, the intents every agent
\* maps to are the same in every order in which the tasks can complete.
C13_MappingIndependentOfCompletionOrder ==
    (Called("think_all") /\ call[1].current_round >= 2 /\ call[1].agents /= <<>>) =>
        \A order \in CompletionOrders(call[1].agents) :
            LET other == ThinkAllReturn(call[1].current_round, call[1].agents,
                                        order, call[1].think_calls)
            IN  /\ other.raised = returned[1].raised
                /\ \A a \in Range(call[1].agents) :
                      IntentsOf(other.thoughts, a) = IntentsOf(returned[1].thoughts, a)

\* think_all has returned for three agents with three different intents,
\* the tasks having completed in the reverse order of the agents
C13_Witness ==
    /\ Called("think_all")
    /\ call[1].current_round = 2
    /\ call[1].agents = Roster
    /\ call[1].order = <<Cy, Bob, AnnLee>>
    /\ IntentsOf(returned[1].thoughts, AnnLee) = {[action |-> "speak", importance |-> 9]}
    /\ IntentsOf(returned[1].thoughts, Bob) = {ThinkAllFallback}
    /\ IntentsOf(returned[1].thoughts, Cy) = {ThinkFallback}

\* the exception texts of a rate limit
RateLimitTexts == {Err429, ErrRateLimit}

RateLimited(outcome) == outcome.kind = "error" /\ outcome.error \in RateLimitTexts

\* the wrapped capability call of a think, speak or accuse call was reached
\* (the memory update did not raise) and, for accuse, there is another agent
WrappedCall ==
    \/ Called("think") /\ ~call[1].memory_raises
    \/ Called("speak")
    \/ /\ Called("accuse")
       /\ ~call[1].memory_raises
       /\ \E a \in Range(call[1].all_agents) : a /= call[1].name

\* the safe default of the call made
SafeDefault ==
    IF call[1].op = "think" THEN ThinkFallback
    ELSE IF call[1].op = "speak" THEN call[1].name \o StrNeedToThink
    ELSE Head(SelectSeq(call[1].all_agents, LAMBDA a : a /= call[1].name))

\* what the caller makes of the value v the capability returned
ResultOf(v) ==
    IF call[1].op = "think" THEN v
    ELSE IF call[1].op = "speak"
    THEN IF v /= <<>> THEN v ELSE call[1].name \o StrThinksCarefully
    ELSE ValidatedChoice(v, SelectSeq(call[1].all_agents, LAMBDA a : a /= call[1].name))

\* C14: a think, speak or accuse call invokes the capability between once
\* and MaxRetries times; every invocation but the last failed with a rate
\* limit; the last one returned, or failed otherwise, or was the
\* MaxRetries-th; the caller does not raise and returns what the capability
\* returned or, when the last invocation failed, its safe default.
C14_BoundedRetryThenSafeDefault ==
    WrappedCall =>
        LET behaviour == call[1].behaviour
            n == returned[1].attempts
        IN  /\ n \in 1..MaxRetries
            /\ \A i \in 1..(n - 1) : RateLimited(behaviour[i])
            /\ RateLimited(behaviour[n]) => n = MaxRetries
            /\ ~returned[1].raised
            /\ returned[1].value = IF behaviour[n].kind = "ok"
                                   THEN ResultOf(behaviour[n].value)
                                   ELSE SafeDefault

\* a think call whose capability was rate limited MaxRetries times and
\* would have answered the next time: the default intent is returned
C14_Witness ==
    /\ Called("think")
    /\ ~call[1].memory_raises
    /\ \A i \in 1..MaxRetries : RateLimited(call[1].behaviour[i])
    /\ call[1].behaviour[MaxRetries + 1].kind = "ok"
    /\ returned[1].attempts = MaxRetries
    /\ returned[1].value = ThinkFallback

\* llm_decide.invoke under _retry_with_backoff
LlmDecideRetried(behaviour) ==
    LET r == RetryWithBackoff(behaviour)
    IN  IF r.raised THEN [raised |-> TRUE] ELSE r.value

\* C15: when decide_next_speaker reaches the tie-break call, the decision
\* it returns is the one made of the call retried after every rate-limit
\* failure up to MaxRetries invocations, and as many invocations are made.
C15_TieBreakRetriedOnRateLimit ==
    (/\ Called("decide_next_speaker")
     /\ InvokesLlm(Selection(call[1].history, call[1].last_speaker,
                             call[1].agent_names, call[1].thoughts))) =>
        /\ returned[1].value =
               DecideNextSpeaker(call[1].history, call[1].last_speaker,
                                 call[1].agent_names, call[1].thoughts,
                                 LlmDecideRetried(call[1].behaviour))
        /\ returned[1].attempts = RetryWithBackoff(call[1].behaviour).attempts

-----------------------------------------------------------------------------
(* Properties of the pending obligation within a turn (TurnSpec).          *)

\* game_master_decide returns a decision of decide_next_speaker
DecideStep ==
    pc = "game_master_decide" /\ pc' = "speak" /\ current_round >= 2 /\ decision' /= <<>>

\* speak runs
SpeakStep == pc = "speak" /\ pc' = "update_history"

\* an obligation just built is addressed to the speaker just selected and
\* comes from the last speaker and the last text
BuiltForThisTurn ==
    pending_obligation' /= <<>> =>
        /\ pending_obligation'[1].addressee = next_speaker'
        /\ pending_obligation'[1].from_speaker = last_speaker
        /\ pending_obligation'[1].from_text = history[Len(history)].text

\* speak calls the selected agent once; the constraint it passes is that of
\* an obligation built in this turn (from the speaker and the text that are
\* still the last ones) for that agent, and None when there is none
PassedInSameTurn ==
    /\ speak_call' /= <<>>
    /\ speak_call'[1].speaker = next_speaker
    /\ IF pending_obligation = <<>>
       THEN speak_call'[1].response_constraint = None
       ELSE /\ pending_obligation[1].addressee = next_speaker
            /\ pending_obligation[1].from_speaker = last_speaker
            /\ pending_obligation[1].from_text = history[Len(history)].text
            /\ speak_call'[1].response_constraint = pending_obligation[1].response_constraint

\* only game_master_decide writes pending_obligation
OnlyDecideWrites ==
    pending_obligation' /= pending_obligation => pc = "game_master_decide"

\* C16 as stated: an obligation is built only in a turn whose last text
\* directly addresses an available agent; it is built for the selected
\* speaker from the last speaker and the last text, and its constraint is
\* passed to that speaker's speak call of the same turn and to no other.
C16_ObligationOnlyOnDirectAddress ==
    [][/\ DecideStep => /\ pending_obligation' /= <<>> => AddressedPositions /= {}
                        /\ BuiltForThisTurn
       /\ SpeakStep => PassedInSameTurn
       /\ OnlyDecideWrites]_vars

\* C16, amended: an obligation is built only in a turn whose last text
\* directly addresses an available agent or whose tie-break call was made
\* and answered with a non-empty response_constraint; it is built for the
\* selected speaker from the last speaker and the last text, and its
\* constraint is passed to that speaker's speak call of the same turn and to
\* no other.
C16_ObligationBuiltAndPassedInTurn ==
    [][/\ DecideStep => /\ pending_obligation' /= <<>> =>
                              \/ AddressedPositions /= {}
                              \/ /\ decision'[1].llm_invoked
                                 /\ Truthy(decision'[1].response_constraint)
                        /\ pending_obligation' = <<>> =>
                              /\ AddressedPositions = {}
                              /\ ~Truthy(decision'[1].response_constraint)
                        /\ BuiltForThisTurn
       /\ SpeakStep => PassedInSameTurn
       /\ OnlyDecideWrites]_vars

\* speak has just been called with the constraint of the tie-break answer,
\* in a turn whose last text addresses nobody
C16_Witness ==
    /\ pc = "update_history"
    /\ current_round = 2
    /\ history[Len(history)].text = TxtPlain
    /\ AddressedPositions = {}
    /\ decision /= <<>>
    /\ decision[1].llm_invoked
    /\ pending_obligation /= <<>>
    /\ pending_obligation[1].response_constraint = <<"x">>
    /\ speak_call = << [speaker |-> pending_obligation[1].addressee,
                        response_constraint |-> <<"x">>] >>

-----------------------------------------------------------------------------
(* Properties of the memory (SuspicionSpec, FactSpec).                     *)

\* update_suspicion has just run on target t
Updated(t) ==
    /\ call' /= <<>>
    /\ call'[1].op = "update_suspicion"
    /\ call'[1].target = t
    /\ suspicions' /= suspicions

\* C17: after any sequence of update_suspicion calls the level of every
\* tracked target lies in [-10, 10].
C17_LevelWithinTen ==
    \A t \in DOMAIN suspicions : suspicions[t].level \in -10..10

\* Bob is at the top level after MaxUpdates updates, the last one a +1
C17_Witness ==
    /\ Called("update_suspicion")
    /\ call[1].target = Bob
    /\ call[1].delta = 1
    /\ Bob \in DOMAIN suspicions
    /\ Len(suspicions[Bob].reasons) = MaxUpdates
    /\ suspicions[Bob].level = MaxLevel

\* n successive updates by delta from level 0
RECURSIVE Repeated(_, _)
Repeated(delta, n) ==
    IF n = 0 THEN 0 ELSE ClampedLevel(Repeated(delta, n - 1), delta)

\* the levels after n successive +1 and n successive -1 updates from 0
RepeatedLevels ==
    [n \in 0..(2 * MaxUpdates) |-> [up |-> Repeated(1, n), down |-> Repeated(-1, n)]]

\* C18 as stated: update_suspicion(target, delta, reason) sets the level
\* of target to max(-10, min(10, old + delta)), old being 0 for a target
\* not yet tracked; n successive +1 updates from 0 give min(n, 10) and n
\* successive -1 updates max(-n, -10).
C18_LevelClampedToTen ==
    [][/\ \A t \in Targets :
             Updated(t) =>
                 suspicions'[t].level =
                     Max(-10, Min(10, LevelOf(suspicions, t) + call'[1].delta))
       /\ \A n \in 0..(2 * MaxUpdates) :
             /\ RepeatedLevels[n].up = Min(n, 10)
             /\ RepeatedLevels[n].down = Max(-n, -10)]_vars

\* C18, amended: update_suspicion(target, delta, reason) sets the level of
\* target to max(-5, min(5, old + delta)), old being 0 for a target not
\* yet tracked, and leaves the level of every other target as it is; n
\* successive +1 updates from 0 give min(n, 5) and n successive -1 updates
\* max(-n, -5).
C18_LevelClampedToFive ==
    [][/\ \A t \in Targets :
             Updated(t) =>
                 /\ suspicions'[t].level =
                        Max(-5, Min(5, LevelOf(suspicions, t) + call'[1].delta))
                 /\ \A o \in Targets \ {t} :
                        LevelOf(suspicions', o) = LevelOf(suspicions, o)
       /\ \A n \in 0..(2 * MaxUpdates) :
             /\ RepeatedLevels[n].up = Min(n, 5)
             /\ RepeatedLevels[n].down = Max(-n, -5)]_vars

\* the first update of Bob, by +100, has left Bob at level 5
C18_Witness ==
    /\ Called("update_suspicion")
    /\ call[1].target = Bob
    /\ call[1].delta = 100
    /\ Bob \in DOMAIN suspicions
    /\ Len(suspicions[Bob].reasons) = 1
    /\ suspicions[Bob].level = 5

\* C19: after any sequence of updates no reasons list holds the same
\* string twice.
C19_ReasonsWithoutDuplicates ==
    \A t \in DOMAIN suspicions :
        \A i, j \in 1..Len(suspicions[t].reasons) :
            suspicions[t].reasons[i] = suspicions[t].reasons[j] => i = j

WithoutDuplicates(fs) == \A i, j \in 1..Len(fs) : fs[i] = fs[j] => i = j

\* C20: add_fact of a text that is stored leaves the fact list as it is,
\* add_fact of a text that is not stored appends it at the end, texts being
\* compared exactly; the list never holds a text twice, and the texts
\* stored keep their positions.
C20_AddFactIdempotent ==
    [][(call' /= <<>> /\ call'[1].op = "add_fact") =>
          /\ IF \E i \in 1..Len(facts) : facts[i] = call'[1].fact
             THEN facts' = facts
             ELSE facts' = Append(facts, call'[1].fact)
          /\ WithoutDuplicates(facts')
          /\ \A i \in 1..Len(facts) : facts'[i] = facts[i]]_vars

\* "Fact" was added again after "Fact", "fact" and "a": three facts stored
C20_Witness ==
    /\ Called("add_fact")
    /\ call[1].fact = <<"F","a","c","t">>
    /\ facts = << <<"F","a","c","t">>, <<"f","a","c","t">>, <<"a">> >>

-----------------------------------------------------------------------------
(* Properties of the short-term window (WindowSpec).                       *)

\* C21: after ShortTermMemory.update(history) the buffer is the last
\* min(K, len(history)) entries of history in their order, K being the
\* window size, for every length of history from 0 on; the buffer never
\* holds more than K entries.
C21_WindowIsLastK ==
    Called("short_term_update") =>
        LET K == call[1].window_size
            hist == call[1].history
            buffer == returned[1].value
        IN  /\ Len(buffer) = Min(K, Len(hist))
            /\ Len(buffer) <= K
            /\ \A i \in 1..Len(buffer) : buffer[i] = hist[Len(hist) - Len(buffer) + i]

\* an agent's window of 10 after the update on a history of 11 entries: the
\* first entry has left the buffer
C21_Witness ==
    /\ Called("short_term_update")
    /\ call[1].window_size = AgentWindowSize
    /\ Len(call[1].history) = AgentWindowSize + 1
    /\ returned[1].value = Tail(call[1].history)

-----------------------------------------------------------------------------
(* Properties of the rendered memory (PromptSpec).                         *)

\* the lines of the returned text that start with h
LinesWith(h) ==
    {i \in 1..Len(returned[1].value) : returned[1].value[i][1] = h}

\* what each layer of the memory rendered has to show
ShortTermHasContent == call[1].memory.buffer /= <<>>

LongTermHasContent ==
    \/ call[1].memory.long_term.facts /= <<>>
    \/ call[1].memory.long_term.alibis /= <<>>
    \/ call[1].memory.long_term.contradictions /= <<>>
    \/ call[1].memory.long_term.clues_received /= <<>>

KnowledgeGraphHasContent ==
    \/ call[1].memory.knowledge_graph.people /= <<>>
    \/ call[1].memory.knowledge_graph.evidence /= <<>>
    \/ \E i \in 1..Len(call[1].memory.knowledge_graph.suspicions) :
          call[1].memory.knowledge_graph.suspicions[i].level > 0

FullLogHasContent == call[1].include_full_history /\ call[1].full_history /= <<>>

\* C22: format_all_for_prompt renders the recent window, then the
\* long-term memory, then the knowledge graph; the header of a layer is in
\* the text, once, exactly when the layer has something to show (a
\* suspicion shows only at a level above 0); the text is the placeholder
\* '(memory layers empty)' exactly when no layer, the optional full log
\* included, has anything to show.
C22_LayersInOrderHeadersOnlyWithContent ==
    Called("format_all_for_prompt") =>
        /\ Cardinality(LinesWith(HeaderRecent)) = IF ShortTermHasContent THEN 1 ELSE 0
        /\ Cardinality(LinesWith(HeaderLongTerm)) = IF LongTermHasContent THEN 1 ELSE 0
        /\ Cardinality(LinesWith(HeaderKnowledgeGraph)) =
               IF KnowledgeGraphHasContent THEN 1 ELSE 0
        /\ \A i \in LinesWith(HeaderRecent) :
              \A j \in LinesWith(HeaderLongTerm) \cup LinesWith(HeaderKnowledgeGraph) : i < j
        /\ \A i \in LinesWith(HeaderLongTerm) :
              \A j \in LinesWith(HeaderKnowledgeGraph) : i < j
        /\ LinesWith(PlaceholderShortTerm[1][1]) = {}
        /\ LinesWith(PlaceholderLongTerm[1][1]) = {}
        /\ LinesWith(PlaceholderKnowledgeGraph[1][1]) = {}
        /\ (returned[1].value = PlaceholderMemory) <=>
               ~(\/ ShortTermHasContent \/ LongTermHasContent
                 \/ KnowledgeGraphHasContent \/ FullLogHasContent)

\* a memory with a window and a positive suspicion but no long-term
\* content: two headers, in order, and no long-term header
C22_Witness ==
    /\ Called("format_all_for_prompt")
    /\ ~call[1].include_full_history
    /\ ShortTermHasContent
    /\ ~LongTermHasContent
    /\ call[1].memory.knowledge_graph.people = <<>>
    /\ call[1].memory.knowledge_graph.evidence = <<>>
    /\ KnowledgeGraphHasContent
    /\ LinesWith(HeaderRecent) = {1}
    /\ LinesWith(HeaderLongTerm) = {}
    /\ LinesWith(HeaderKnowledgeGraph) = {4}

-----------------------------------------------------------------------------
(* Properties of the accusation (CallSpec).                                *)

\* the other agents of an accuse call
OtherAgents == SelectSeq(call[1].all_agents, LAMBDA a : a /= call[1].name)

\* the last invocation of the capability in the call made
LastAttempt == call[1].behaviour[returned[1].attempts]

\* positions in OtherAgents of the names that contain answer or are
\* contained in it, case ignored
ClosePositions(answer) ==
    {i \in 1..Len(OtherAgents) :
        \/ Contains(Lower(OtherAgents[i]), Lower(answer))
        \/ Contains(Lower(answer), Lower(OtherAgents[i]))}

\* C23: with at least two agents (and a memory update that does not
\* raise) accuse returns one of the other agents: the name answered when it
\* is one of them; else the first other agent whose name contains the
\* answer or is contained in it, case ignored; else the first other agent,
\* which is also returned when the capability call fails.
C23_AccusedIsAnotherAgent ==
    (Called("accuse") /\ Len(call[1].all_agents) >= 2 /\ ~call[1].memory_raises) =>
        /\ ~returned[1].raised
        /\ returned[1].value \in Range(OtherAgents)
        /\ returned[1].value /= call[1].name
        /\ returned[1].value =
               IF LastAttempt.kind = "error" THEN OtherAgents[1]
               ELSE IF LastAttempt.value \in Range(OtherAgents) THEN LastAttempt.value
               ELSE IF ClosePositions(LastAttempt.value) /= {}
               THEN OtherAgents[Least(ClosePositions(LastAttempt.value))]
               ELSE OtherAgents[1]

\* Ann Lee's accuse over the full roster, answered "Mr Cy" after a rate
\* limit: Cy, the second of the other agents, is accused
C23_Witness ==
    /\ Called("accuse")
    /\ call[1].name = AnnLee
    /\ call[1].all_agents = Roster
    /\ ~call[1].memory_raises
    /\ returned[1].attempts = 2
    /\ LastAttempt = Ok(<<"M","r"," ">> \o Cy)
    /\ returned[1].value = Cy

-----------------------------------------------------------------------------
(* Properties of the turn loop, continued (Spec).                          *)

\* game_master_decide runs on an empty candidate pool: there are no agents,
\* or, in a round >= 2, there are no thoughts
EmptyPool == agents = <<>> \/ (current_round >= 2 /\ thoughts = <<>>)

\* C24: game_master_decide on an empty candidate pool does not raise: it
\* returns next_speaker None, in round 1 as in the later rounds, and the
\* turn goes on to speak, which leaves no utterance.
C24_EmptyPoolGivesEmptyTurn ==
    [][/\ (pc = "game_master_decide" /\ EmptyPool) =>
             (pc' = "speak" /\ next_speaker' = None)
       /\ (pc = "speak" /\ agents = <<>>) =>
             (pc' = "update_history" /\ new_utterance' = <<>>)]_vars

-----------------------------------------------------------------------------
(* Properties of the thoughts map (CallSpec).                              *)

\* C25: every intent think_all stores has an importance in 0..9; the
\* intent of an agent whose capability answered with an importance out of
\* these bounds, or whose think call failed, is a default intent.
C25_ImportanceWithinBounds ==
    Called("think_all") =>
        /\ \A i \in 1..Len(returned[1].thoughts) :
              returned[1].thoughts[i].importance \in 0..9
        /\ \A a \in Range(call[1].agents) :
              (/\ call[1].current_round >= 2
               /\ \/ call[1].think_calls[a].memory_raises
                  \/ \A k \in 1..MaxRetries :
                        LET outcome == call[1].think_calls[a].behaviour[k]
                        IN  \/ outcome.kind = "error"
                            \/ outcome.value.importance \notin 0..9) =>
                  IntentsOf(returned[1].thoughts, a) \subseteq {ThinkFallback, ThinkAllFallback}

\* think_all has returned for three agents: Ann Lee's capability answered
\* importance 12, Bob's 429 and then -1, Cy's memory update raised
C25_Witness ==
    /\ Called("think_all")
    /\ call[1].current_round = 2
    /\ call[1].agents = Roster
    /\ ~call[1].think_calls[AnnLee].memory_raises
    /\ call[1].think_calls[AnnLee].behaviour[1] = Ok([action |-> "speak", importance |-> 12])
    /\ ~call[1].think_calls[Bob].memory_raises
    /\ call[1].think_calls[Bob].behaviour[1] = Ok([action |-> "speak", importance |-> 429])
    /\ call[1].think_calls[Cy].memory_raises
    /\ IntentsOf(returned[1].thoughts, AnnLee) = {ThinkFallback}
    /\ IntentsOf(returned[1].thoughts, Bob) = {ThinkFallback}
    /\ IntentsOf(returned[1].thoughts, Cy) = {ThinkAllFallback}

-----------------------------------------------------------------------------
(* Properties of the introduction round (IntroSpec).                       *)

\* C26: while current_round = 1, game_master_decide selects the first agent
\* of the roster that is not a speaker in history, whatever the intents and
\* the last speaker are, and sets pending_obligation to None; no agent
\* speaks twice in round 1.
C26_RoundRobinIntroduction ==
    [][/\ (pc = "game_master_decide" /\ current_round = 1) =>
              /\ \E i \in 1..Len(agents) :
                    /\ agents[i] \notin Speakers(history)
                    /\ \A j \in 1..(i - 1) : agents[j] \in Speakers(history)
                    /\ next_speaker' = agents[i]
              /\ pending_obligation' = <<>>
       /\ (pc = "speak" /\ current_round = 1) =>
              /\ new_utterance' /= <<>>
              /\ new_utterance'[1].speaker \notin Speakers(history)
       /\ current_round' = 1 =>
              \A a \in Range(agents) : EntriesOf(a, history') <= 1]_vars

\* in round 1 of three agents Bob has been selected, after Ann Lee's
\* introduction and with Ann Lee as the last speaker
C26_Witness ==
    /\ pc = "speak"
    /\ current_round = 1
    /\ agents = Roster
    /\ AnnLee \in Speakers(history)
    /\ last_speaker = AnnLee
    /\ next_speaker = Bob
    /\ pending_obligation = <<>>

-----------------------------------------------------------------------------
(* Properties of the phase (Spec).                                         *)

\* the position of a phase in introduction, discussion, accusation
PhaseRank(p) ==
    CASE p = "introduction" -> 1
      [] p = "discussion" -> 2
      [] p = "accusation" -> 3

\* C30: the phase is introduction exactly in round 1, the accusation phase
\* implies done, and the phase never goes back to an earlier one of
\* introduction, discussion, accusation.
C30_PhaseOnlyMovesForward ==
    /\ [](/\ phase \in {"introduction", "discussion", "accusation"}
          /\ (phase = "introduction") <=> (current_round = 1)
          /\ (phase = "accusation") => done)
    /\ [][PhaseRank(phase') >= PhaseRank(phase)]_vars

\* the run has ended in the accusation phase, after the discussion phase of
\* rounds 2 to 5
C30_Witness ==
    /\ pc = "END"
    /\ phase = "accusation"
    /\ done
    /\ current_round = 5
    /\ agents /= <<>>

-----------------------------------------------------------------------------
(* Properties of the round advance (RoundSpec).                            *)

\* the agent object of a name, as the state holds it
AgentOf(a) ==
    [current_round |-> agent_round[a],
     accumulated_knowledge |-> accumulated_knowledge[a]]

IsPrefix(s, t) == Len(s) <= Len(t) /\ SubSeq(t, 1, Len(s)) = s

\* C28: a step that advances the round to r calls update_round(r) exactly
\* once for every agent, inside check_round_advance, and no other step
\* calls it, so every agent's current_round is the state's current_round;
\* update_round with the agent's own round changes nothing; and
\* accumulated_knowledge only grows.
C28_AgentsFollowTheRound ==
    /\ [](\A a \in Range(agents) :
             /\ agent_round[a] = current_round
             /\ \A text \in {<<>>, TxtRoundInfo} :
                   UpdateRound(AgentOf(a), a, agent_round[a],
                               [key \in {<<FolderName(a), agent_round[a]>>} |-> text])
                       = AgentOf(a))
    /\ [][/\ current_round' /= current_round =>
                /\ pc = "check_round_advance"
                /\ pc' = "advance_turn"
                /\ turn' = turn
                /\ \A a \in Range(agents) :
                      round_updates'[a] = Append(round_updates[a], current_round')
          /\ current_round' = current_round => round_updates' = round_updates
          /\ \A a \in Range(agents) :
                IsPrefix(accumulated_knowledge[a], accumulated_knowledge'[a])]_vars

\* round 3 has begun for two agents: update_round was called with 1, 2, 3
\* for both, Ann Lee has the descriptions of three rounds accumulated and
\* Bob, whose folder has none for round 3, two
C28_Witness ==
    /\ pc = "think_all"
    /\ current_round = 3
    /\ agents = LoopRoster
    /\ round_updates[AnnLee] = <<1, 2, 3>>
    /\ round_updates[Bob] = <<1, 2, 3>>
    /\ agent_round[Bob] = 3
    /\ Len(accumulated_knowledge[AnnLee]) = 3
    /\ clue_files /= NoClueFiles

\* C29 (as claimed): a step that advances the round adds the clue text the
\* loader returns for the round just finished to every agent's
\* clues_received when that text is not empty, and adds nothing when it is
\* empty
C29_ClueAddedOnRoundAdvance ==
    [][current_round' /= current_round =>
          LET clue_text == LoadClue(clue_files, current_round)
          IN  /\ pc' = "advance_turn"
              /\ clue_text /= <<>> =>
                    \A a \in Range(agents) : clue_text \in Range(clues_received'[a])
              /\ clue_text = <<>> => clues_received' = clues_received]_vars

-----------------------------------------------------------------------------
(* Properties of the pool of think tasks (PoolSpec).                       *)

\* C27: game_master_decide and speak start only when every think task of
\* the turn has completed or failed (in a turn that thinks, every agent has
\* such a task), no think task runs while they do, and speak is entered
\* only from game_master_decide, which is entered only from think_all,
\* which is entered only by a new turn: speak runs at most once per turn.
C27_ThinkTasksDoneBeforeDecideAndSpeak ==
    /\ [](pc \in {"game_master_decide", "speak"} =>
             /\ \A a \in DOMAIN futures : futures[a].done
             /\ (current_round >= 2 /\ agents /= <<>>) =>
                   /\ DOMAIN futures = Range(agents)
                   /\ \A a \in Range(agents) : futures[a].turn = turn)
    /\ [][/\ (pc' = "speak" /\ pc /= "speak") => pc = "game_master_decide"
          /\ (pc = "speak" /\ pc' /= "speak") => pc' = "update_history"
          /\ (pc' = "game_master_decide" /\ pc /= "game_master_decide") =>
                 pc \in {"think_all", "as_completed"}
          /\ (pc' = "think_all" /\ pc /= "think_all") => turn' = turn + 1]_vars

\* speak is about to run in a turn of round 2 whose think tasks have both
\* completed, Bob's before Ann Lee's
C27_Witness ==
    /\ pc = "speak"
    /\ current_round = 2
    /\ agents = LoopRoster
    /\ DOMAIN futures = {AnnLee, Bob}
    /\ futures[Bob].done /\ futures[Bob].arrival = 1
    /\ futures[AnnLee].done /\ futures[AnnLee].arrival = 2
    /\ futures[AnnLee].turn = turn
    /\ thoughts[1].name = Bob

-----------------------------------------------------------------------------
(* Properties of speaker selection, continued (TurnSpec).                  *)

\* C31 (as claimed): decide_next_speaker invokes the tie-break capability
\* only when there is no direct address and two or more available agents
\* share the highest importance; a direct address, a unique highest agent
\* and a single agent that was the last speaker are decided without a call
C31_TieBreakCallOnlyWhenTied ==
    (JustDecided /\ decision[1].llm_invoked)
        => /\ AddressedPositions = {}
           /\ Cardinality(TopPositions) >= 2

-----------------------------------------------------------------------------
(* Properties of process_new_message (MessageSpec). *)

\* the participants a message names with a capitalised one-word name
NamedCapitalised(message) ==
    {p \in {Bob, Cy} : p /= message.speaker /\ p \in Range(Split(message.text))}

\* the 'accused' relations of a memory from a speaker to a participant
AccusedRelations(mem, speaker, p) ==
    {i \in 1..Len(mem.relations) :
        /\ mem.relations[i].relation_type = "accused"
        /\ mem.relations[i].source = speaker
        /\ mem.relations[i].target = p}

\* C32 (as claimed): when the message processed contains an accusation cue
\* ('you killed', 'murderer' or 'suspect') and names another participant
\* with a capitalised name, process_new_message has recorded one more
\* 'accused' relation from the speaker to that participant and has raised
\* the participant's suspicion level by 1 (within the clamp) in the
\* observer's ledger. The code tests istitle() on the words of the
\* lower-cased text, which none of them passes.
C32_AccusationRecorded ==
    Called("process_new_message") =>
        \A p \in NamedCapitalised(call[1].message) :
            HasAccusationCue(Lower(call[1].message.text)) =>
                LET before == call[1].before
                    after == agent_memory[call[1].observer]
                    speaker == call[1].message.speaker
                IN  /\ Cardinality(AccusedRelations(after, speaker, p))
                          = Cardinality(AccusedRelations(before, speaker, p)) + 1
                    /\ LevelOf(after.suspicions, p)
                          = ClampedLevel(LevelOf(before.suspicions, p), 1)

-----------------------------------------------------------------------------
(* Properties of the loop, continued (Spec). *)

\* C33: at every turn boundary (before think_all and at the end) last_speaker
\* is the speaker of the last history entry, and every speak step sets
\* last_speaker to the speaker of the utterance it produces and leaves it
\* unchanged when it produces none.
C33_LastSpeakerIsLastInHistory ==
    /\ [](pc \in {"think_all", "END"}
            => /\ history /= <<>>
               /\ last_speaker = history[Len(history)].speaker)
    /\ [][SpeakStep =>
              last_speaker' = IF new_utterance' = <<>> THEN last_speaker
                              ELSE new_utterance'[1].speaker]_vars

\* a turn boundary after an agent has spoken
C33_Witness ==
    /\ pc = "think_all"
    /\ turn >= 2
    /\ last_speaker \in Range(agents)
    /\ last_speaker = history[Len(history)].speaker
    /\ history[Len(history)].turn = turn - 1

\* C34: with at least one agent, from the runner's initial state, no turn is
\* silent, whatever the think, speak and tie-break calls do: speak always
\* produces an utterance, at every turn boundary len(history) = turn + 1, and
\* the utterance appended in turn t carries turn = t (entry t + 2 of the
\* history, after the announcement).
C34_EveryTurnAppendsOneUtterance ==
    agents /= <<>> =>
        /\ pc = "update_history" => new_utterance /= <<>>
        /\ pc \in {"think_all", "END"} => Len(history) = turn + 1
        /\ \A i \in 2..Len(history) : history[i].turn = i - 2

\* a turn boundary of the discussion, after a turn whose tie-break call was
\* made
C34_Witness ==
    /\ agents /= <<>>
    /\ pc = "think_all"
    /\ current_round >= 2
    /\ turn >= 3
    /\ decision /= <<>> /\ decision[1].llm_invoked
    /\ Len(history) = turn + 1
    /\ history[Len(history)].turn = turn - 1

-----------------------------------------------------------------------------
(* Properties of the runner's turn budget (BudgetSpec). *)

\* C35: with max_turns = 6 * conversations_per_round + 10 and at most
\* 2 * conversations_per_round + 10 agents, every run ends, and it ends
\* through round completion, with done = TRUE and phase = "accusation": the
\* turn budget never ends a run in an earlier phase. (The roster and
\* conversations_per_round do not change in a run.)
Covered == Len(agents) <= AgentsCovered(conversations_per_round)

-----------------------------------------------------------------------------
(* Properties of decide_next_speaker called on its own, continued          *)
(* (CallSpec).                                                             *)

\* the thoughts dicts with the entries of thts, in every insertion order
Reorderings(thts) ==
    {[i \in 1..Len(thts) |-> thts[p[i]]] :
     p \in {q \in [1..Len(thts) -> 1..Len(thts)] :
                \A i, j \in 1..Len(thts) : i /= j => q[i] /= q[j]}}

\* the answer is no tied agent and is close to none
MatchesNoTiedAgent(answer, top_agents) ==
    \A i \in 1..Len(top_agents) :
        /\ answer /= top_agents[i]
        /\ ~Contains(Lower(top_agents[i]), Lower(answer))
        /\ ~Contains(Lower(answer), Lower(top_agents[i]))

\* C36 (as claimed): when the tie-break call is made and it fails, or its
\* answer matches no tied agent, the speaker decide_next_speaker returns is
\* the same for every insertion order of the thoughts dict, that is for
\* every completion order of the turn's think tasks. The code takes
\* top_agents[0] and max(thoughts.items()), the first of the tied entries
\* in dict order.
C36_SpeakerIndependentOfCompletionOrder ==
    Called("decide_next_speaker") =>
        LET c == call[1]
            llm == LlmDecide(c.behaviour)
            sel == Selection(c.history, c.last_speaker, c.agent_names, c.thoughts)
        IN  (/\ InvokesLlm(sel)
             /\ \/ llm.raised
                \/ MatchesNoTiedAgent(llm.next_speaker, sel.top_agents))
            => \A other \in Reorderings(c.thoughts) :
                   DecideNextSpeaker(c.history, c.last_speaker, c.agent_names,
                                     other, llm).next_speaker
                       = returned[1].value.next_speaker

-----------------------------------------------------------------------------
(* Properties of the think step, continued (PoolSpec). *)

\* a step of think_all: the submission, a think task, or the collection
ThinkAllStep == pc \in {"think_all", "as_completed"}

\* C37: in every interleaving of the think tasks, a step of think_all leaves
\* history, turn, current_round, conversations_in_round, last_speaker,
\* pending_obligation and done unchanged, and a memory that changes is the
\* memory of the agent whose think task completes in that step.
C37_ThinkWritesOnlyOwnMemory ==
    [][ThinkAllStep =>
          /\ UNCHANGED <<history, turn, current_round, conversations_in_round,
                         last_speaker, pending_obligation, done>>
          /\ \A b \in DOMAIN agent_memory :
                agent_memory'[b] /= agent_memory[b]
                    => /\ b \in DOMAIN futures
                       /\ ~futures[b].done
                       /\ futures'[b].done]_vars

\* one agent's task has completed and has written its memory while another
\* agent's task is still running on the memory of the turn before
C37_Witness ==
    /\ pc = "as_completed"
    /\ \E a, b \in DOMAIN futures :
          /\ futures[a].done /\ ~futures[b].done
          /\ Len(agent_memory[a].short_term) = Len(history)
          /\ Len(agent_memory[b].short_term) < Len(history)

-----------------------------------------------------------------------------
(* Properties of the rounds, continued (RoundSpec). *)

\* C38: the round only advances by one, to a round of 2..5, each advance
\* being one invocation of announce_round_change followed by update_round
\* for every agent; when the run is complete current_round is 5 and
\* update_round has been called for 1, 2, 3, 4, 5 in this order; round 6 is
\* never announced and the text of clue 5, which only the final
\* announcement carries, reaches no agent.
C38_RoundsAnnouncedOnceInOrder ==
    /\ [](done /\ phase = "accusation"
            => /\ current_round = 5
               /\ \A a \in Range(agents) : round_updates[a] = <<1, 2, 3, 4, 5>>)
    /\ [](\A a \in Range(agents) :
            \A i \in 1..Len(clues_received[a]) :
                ~Contains(TxtClueFinal, clues_received[a][i]))
    /\ [][current_round' /= current_round
              => /\ current_round' = current_round + 1
                 /\ current_round' \in 2..5]_vars

\* a complete run of two agents with a clue folder that holds clue 5
C38_Witness ==
    /\ pc = "END"
    /\ done /\ phase = "accusation"
    /\ current_round = 5
    /\ agents = LoopRoster
    /\ 5 \in DOMAIN clue_files
    /\ round_updates[Bob] = <<1, 2, 3, 4, 5>>
    /\ clues_received[Bob] /= <<>>

-----------------------------------------------------------------------------
(* Properties of the step limit (LimitSpec). *)

\* C39 (as claimed): for every number of conversations per round the runner
\* accepts, the run reaches done before the step limit of 1000 node
\* executions is exhausted: the executor never gives up on a run that is
\* not done. The runner accepts every positive number, and rounds 2..5
\* alone take 4 * conversations_per_round turns of six nodes.
C39_DoneBeforeStepLimit == pc = "raised" => done

-----------------------------------------------------------------------------
(* Properties of speaker selection, the intents (TurnSpec). *)

\* the thoughts dict with the actions replaced, entry by entry
WithActions(thts, actions) ==
    [i \in 1..Len(thts) |-> [thts[i] EXCEPT !.action = actions[i]]]

\* the tied candidates decide_next_speaker computes for a thoughts dict in
\* the state of the decision (they do not depend on the history, which is
\* left out here)
TopAgentsOf(thts) == Selection(<<>>, last_speaker, agents, thts).top_agents

\* C40: after a decision of a round >= 2, every intent map with the same
\* importances and any other actions (speak or listen) has the same tied
\* candidates, in the same order; and without a direct address an agent
\* whose intent is 'listen' and who alone holds the highest importance
\* among the available agents is the speaker selected.
C40_SelectionUsesImportanceOnly ==
    JustDecided =>
        /\ \A actions \in [1..Len(thoughts) -> {"speak", "listen"}] :
               TopAgentsOf(WithActions(thoughts, actions)) = TopAgentsOf(thoughts)
        /\ \A i \in TopPositions :
               (/\ TopPositions = {i}
                /\ AddressedPositions = {}
                /\ thoughts[i].action = "listen")
                   => next_speaker = thoughts[i].name

\* a listening agent alone at the top has been selected, ahead of an
\* available agent of lower importance
C40_Witness ==
    /\ JustDecided
    /\ AddressedPositions = {}
    /\ Cardinality(AvailablePositions) >= 2
    /\ \E i \in TopPositions :
          /\ TopPositions = {i}
          /\ thoughts[i].action = "listen"
          /\ next_speaker = thoughts[i].name
          /\ ~decision[1].llm_invoked

=============================================================================
